---------------------------- MODULE Spec2Model ----------------------------
(***************************************************************************)
(* k8s-ecstask: conversion of a Kubernetes Pod into an ECS task definition *)
(* (pkg/ecs) and the dry-run check tool (cmd/pod-to-ecs-check).            *)
(*                                                                         *)
(* Representation of Go values:                                            *)
(*   string     a sequence of tokens; "" is << >>.  A token is a piece of  *)
(*              text that no operation of the program looks inside, so     *)
(*              concatenation is \o and equality of strings is equality of *)
(*              sequences.  The separator tokens "/", "," and " " are kept *)
(*              apart from every other token.                              *)
(*   pointer    a sequence of length 0 (nil) or 1 (the pointee)            *)
(*   slice      a sequence (a nil slice and an empty slice are both << >>, *)
(*              the program only takes their len)                          *)
(*   map        a function over the set of its keys, behind a pointer      *)
(*              where the program tests the map against nil                *)
(***************************************************************************)
EXTENDS Integers, Sequences, FiniteSets, TLC

VARIABLES
    gen,        \* which generation of the duplicated source is running
    pod,        \* the Pod handed to the tool or the converter
    vres,       \* validatePod's result per skipWarnings value (pointer each)
    options,    \* the caller's ConversionOptions value
    converter,  \* pointer to the Converter NewConverter built
    ecsConfig,  \* the ECSConfig handed to the converter
    call,       \* the arguments of a function called on its own
    outs,       \* per function called, pointer to what it returned
    pods,       \* the check tool's list of Pods (pods.Items)
    pc,         \* the check tool's position in main
    idx,        \* the index of the next Pod of the loop
    summary,    \* the check tool's ValidationSummary
    exitStatus, \* pointer to the status the check tool's process ended with
    threads,    \* per goroutine of a concurrent caller, the state of its call
    cluster,    \* the Pods of the cluster the controller watches, by name
    queue       \* the controller's work queue of reconcile requests

\* The state of the check tool's main function.
mainVars == <<pods, pc, idx, summary, exitStatus>>

\* The state of the Pod watcher and of its cluster.
watchVars == <<cluster, queue>>

vars ==
    <<gen, pod, vres, options, converter, ecsConfig, call, outs, mainVars, threads,
      watchVars>>

---------------------------------------------------------------------------
(* Go values *)

Nil == << >>

Ptr(x) == <<x>>

IsNil(p) == Len(p) = 0

Deref(p) == p[1]

\* A one-token string; the empty token list is the empty string.
S(tok) == <<tok>>

Empty == << >>

RECURSIVE Concat(_)
\* Concatenation of a list of strings, left to right.
Concat(parts) ==
    IF parts = << >> THEN << >> ELSE Head(parts) \o Concat(Tail(parts))

---------------------------------------------------------------------------
(* Kubernetes objects, as far as the program reads them *)

\* resource.Quantity: sign, whole units and thousandths of a unit.
Quantity(neg, whole, milli) == [neg |-> neg, whole |-> whole, milli |-> milli]

ZeroQuantity == Quantity(FALSE, 0, 0)

\* Quantity.MilliValue: the value in thousandths.
MilliValue(q) ==
    LET m == q.whole * 1000 + q.milli IN IF q.neg THEN 0 - m ELSE m

\* Quantity.Value: the value in whole units, rounded away from zero.
Value(q) ==
    LET m == q.whole + (IF q.milli > 0 THEN 1 ELSE 0) IN IF q.neg THEN 0 - m ELSE m

\* Go's integer division, which truncates toward zero.
GoDiv(a, b) ==
    IF a >= 0 THEN a \div b ELSE 0 - ((0 - a) \div b)

\* ResourceList.Cpu / ResourceList.Memory: the entry, or a zero quantity.
Cpu(list) == IF "cpu" \in DOMAIN list THEN list["cpu"] ELSE ZeroQuantity

Memory(list) == IF "memory" \in DOMAIN list THEN list["memory"] ELSE ZeroQuantity

EnvSource(secret, configMap, field, resourceField) ==
    [SecretKeyRef |-> secret, ConfigMapKeyRef |-> configMap,
     FieldRef |-> field, ResourceFieldRef |-> resourceField]

EnvVar(name, value, valueFrom) ==
    [Name |-> name, Value |-> value, ValueFrom |-> valueFrom]

KeyRef(name, key) == [Name |-> name, Key |-> key]

SecurityContext(privileged, capabilitiesAdd) ==
    [Privileged |-> privileged, Capabilities |-> capabilitiesAdd]

VolumeMount(name, path, readOnly) ==
    [Name |-> name, MountPath |-> path, ReadOnly |-> readOnly]

ContainerPort(containerPort, hostPort, protocol) ==
    [ContainerPort |-> containerPort, HostPort |-> hostPort, Protocol |-> protocol]

\* corev1.Container with nothing set but its name and image.
Container(name, image) ==
    [Name |-> name, Image |-> image,
     Command |-> << >>, Args |-> << >>, WorkingDir |-> Empty,
     Ports |-> << >>, Env |-> << >>,
     Resources |-> [Limits |-> Nil, Requests |-> Nil],
     VolumeMounts |-> << >>,
     LivenessProbe |-> Nil, ReadinessProbe |-> Nil,
     SecurityContext |-> Nil]

\* corev1.Volume: a name and the pointers of its volume source.
Volume(name) ==
    [Name |-> name, HostPath |-> Nil, EmptyDir |-> Nil,
     PersistentVolumeClaim |-> Nil, NFS |-> Nil, Secret |-> Nil,
     ConfigMap |-> Nil]

PodSpec(containers, initContainers, volumes) ==
    [Containers |-> containers, InitContainers |-> initContainers,
     Volumes |-> volumes, ServiceAccountName |-> Empty,
     HostNetwork |-> FALSE, HostPID |-> FALSE, HostIPC |-> FALSE,
     SecurityContext |-> Nil]

Pod(name, namespace, annotations, spec) ==
    [Name |-> name, Namespace |-> namespace, Annotations |-> annotations,
     Spec |-> spec]

---------------------------------------------------------------------------
(* cmd/pod-to-ecs-check, rule-based generation *)

ValidationResult(podName, namespace) ==
    [PodName |-> podName, Namespace |-> namespace, CanConvert |-> TRUE,
     Errors |-> << >>, Warnings |-> << >>, UnsupportedInfo |-> << >>]

AddError(result, msg) ==
    [result EXCEPT !.Errors = Append(@, msg), !.CanConvert = FALSE]

AddWarning(result, msg) == [result EXCEPT !.Warnings = Append(@, msg)]

\* Mutant of AddUnsupported: a note on an unsupported feature makes the Pod
\* not convertible.
AddUnsupportedBlocks(result, msg) ==
    [result EXCEPT !.UnsupportedInfo = Append(@, msg), !.CanConvert = FALSE]

AddUnsupported(result, msg) ==
    [result EXCEPT !.UnsupportedInfo = Append(@, msg)]

\* if cond { result.Errors = append(result.Errors, msg); result.CanConvert = false }
ErrorIf(cond, result, msg) == IF cond THEN AddError(result, msg) ELSE result

\* if cond { result.Warnings = append(result.Warnings, msg) }
WarnIf(cond, result, msg) == IF cond THEN AddWarning(result, msg) ELSE result

\* if cond { result.UnsupportedInfo = append(result.UnsupportedInfo, msg) }
UnsupportedIf(cond, result, msg) ==
    IF cond THEN AddUnsupported(result, msg) ELSE result

\* The findings of one environment entry, in the order of the four tests.
validateEnvVar(container, env, result) ==
    IF IsNil(env.ValueFrom) THEN result
    ELSE
      LET from == Deref(env.ValueFrom)
          r1 == UnsupportedIf(~IsNil(from.FieldRef), result,
                   Concat(<<S("Container '"), container.Name,
                            S("' uses field reference for env var '"),
                            env.Name, S("' which is not supported")>>))
          r2 == UnsupportedIf(~IsNil(from.ResourceFieldRef), r1,
                   Concat(<<S("Container '"), container.Name,
                            S("' uses resource field reference for env var '"),
                            env.Name, S("' which is not supported")>>))
          r3 == WarnIf(~IsNil(from.SecretKeyRef), r2,
                   Concat(<<S("Container '"), container.Name,
                            S("' references secret '"),
                            Deref(from.SecretKeyRef).Name,
                            S("' - ensure it's migrated to Parameter Store")>>))
      IN  WarnIf(~IsNil(from.ConfigMapKeyRef), r3,
             Concat(<<S("Container '"), container.Name,
                      S("' references configmap '"),
                      Deref(from.ConfigMapKeyRef).Name,
                      S("' - ensure it's migrated to Parameter Store")>>))

RECURSIVE validateEnv(_, _, _)
validateEnv(container, envs, result) ==
    IF envs = << >> THEN result
    ELSE validateEnv(container, Tail(envs),
                     validateEnvVar(container, Head(envs), result))

validateSecurityContext(container, result) ==
    IF IsNil(container.SecurityContext) THEN result
    ELSE
      LET sc == Deref(container.SecurityContext)
          r1 == ErrorIf(~IsNil(sc.Privileged) /\ Deref(sc.Privileged), result,
                   Concat(<<S("Container '"), container.Name,
                            S("' requires privileged mode which is not supported in ECS Fargate")>>))
      IN  WarnIf(~IsNil(sc.Capabilities) /\ Len(Deref(sc.Capabilities).Add) > 0, r1,
             Concat(<<S("Container '"), container.Name,
                      S("' adds Linux capabilities - verify ECS task role permissions")>>))

\* Mutant of validateContainer: the image is not looked at.
validateContainerIgnoresImage(container, result) ==
    LET r2 == validateEnv(container, container.Env, result)
        r3 == WarnIf(~IsNil(container.LivenessProbe), r2, S("liveness probe"))
        r4 == WarnIf(~IsNil(container.ReadinessProbe), r3, S("readiness probe"))
        r5 == validateSecurityContext(container, r4)
    IN  WarnIf(IsNil(container.Resources.Limits) /\ IsNil(container.Resources.Requests),
               r5, S("no resource limits/requests"))

validateContainer(container, result) ==
    LET r1 == ErrorIf(container.Image = Empty, result,
                 Concat(<<S("Container '"), container.Name,
                          S("' has no image specified")>>))
        r2 == validateEnv(container, container.Env, r1)
        r3 == WarnIf(~IsNil(container.LivenessProbe), r2,
                 Concat(<<S("Container '"), container.Name,
                          S("' has liveness probe - ECS health checks work differently")>>))
        r4 == WarnIf(~IsNil(container.ReadinessProbe), r3,
                 Concat(<<S("Container '"), container.Name,
                          S("' has readiness probe - ECS uses target group health checks")>>))
        r5 == validateSecurityContext(container, r4)
    IN  WarnIf(IsNil(container.Resources.Limits) /\ IsNil(container.Resources.Requests), r5,
           Concat(<<S("Container '"), container.Name,
                    S("' has no resource limits/requests - ECS requires CPU and memory specification")>>))

\* Mutant of validateVolume: a secret volume is an error, not a note.
validateVolumeSecretIsError(volume, result) ==
    LET r1 == ErrorIf(~IsNil(volume.PersistentVolumeClaim), result,
                 S("Volume uses PersistentVolumeClaim"))
        r2 == ErrorIf(~IsNil(volume.NFS), r1, S("Volume uses NFS"))
        r3 == ErrorIf(~IsNil(volume.Secret), r2, S("Volume mounts secret"))
        r4 == UnsupportedIf(~IsNil(volume.ConfigMap), r3, S("Volume mounts configmap"))
    IN  WarnIf(~IsNil(volume.HostPath), r4, S("Volume uses hostPath"))

validateVolume(volume, result) ==
    LET r1 == ErrorIf(~IsNil(volume.PersistentVolumeClaim), result,
                 Concat(<<S("Volume '"), volume.Name,
                          S("' uses PersistentVolumeClaim which is not supported in ECS")>>))
        r2 == ErrorIf(~IsNil(volume.NFS), r1,
                 Concat(<<S("Volume '"), volume.Name,
                          S("' uses NFS which requires EFS configuration in ECS")>>))
        r3 == UnsupportedIf(~IsNil(volume.Secret), r2,
                 Concat(<<S("Volume '"), volume.Name, S("' mounts secret '"),
                          Deref(volume.Secret).SecretName,
                          S("' - use Parameter Store or Secrets Manager instead")>>))
        r4 == UnsupportedIf(~IsNil(volume.ConfigMap), r3,
                 Concat(<<S("Volume '"), volume.Name, S("' mounts configmap '"),
                          Deref(volume.ConfigMap).Name,
                          S("' - use Parameter Store instead")>>))
    IN  WarnIf(~IsNil(volume.HostPath), r4,
           Concat(<<S("Volume '"), volume.Name,
                    S("' uses hostPath - ensure the path is available in ECS")>>))

RECURSIVE validateContainersStopsAtFirstError(_, _)
\* Mutant of validateContainers: the loop ends at the first container that
\* added an error.
validateContainersStopsAtFirstError(containers, result) ==
    IF containers = << >> THEN result
    ELSE LET r == validateContainer(Head(containers), result)
         IN  IF Len(r.Errors) > Len(result.Errors) THEN r
             ELSE validateContainersStopsAtFirstError(Tail(containers), r)

RECURSIVE validateContainers(_, _)
validateContainers(containers, result) ==
    IF containers = << >> THEN result
    ELSE validateContainers(Tail(containers),
                            validateContainer(Head(containers), result))

RECURSIVE validateVolumes(_, _)
validateVolumes(volumes, result) ==
    IF volumes = << >> THEN result
    ELSE validateVolumes(Tail(volumes), validateVolume(Head(volumes), result))

\* Mutant of applySkipWarnings: the flag also drops the notes on unsupported
\* features.
applySkipWarningsDropsNotes(skipWarnings, result) ==
    IF skipWarnings /\ result.CanConvert
    THEN [result EXCEPT !.Warnings = << >>, !.UnsupportedInfo = << >>]
    ELSE result

\* The skip-warnings step that ends both generations of validatePod.
applySkipWarnings(skipWarnings, result) ==
    IF skipWarnings /\ result.CanConvert
    THEN [result EXCEPT !.Warnings = << >>]
    ELSE result

\* Mutant of validateInitContainers: the init containers are reported as an
\* error.
validateInitContainersAsError(spec, result) ==
    IF Len(spec.InitContainers) > 0
    THEN [result EXCEPT
            !.Errors = Append(@, <<"Pod has ", ToString(Len(spec.InitContainers)),
                                   " init containers which are not directly supported in ECS">>),
            !.CanConvert = FALSE]
    ELSE result

\* The check for init containers: a note, and the Pod is not convertible.
validateInitContainers(spec, result) ==
    IF Len(spec.InitContainers) > 0
    THEN [AddUnsupported(result,
            <<"Pod has ", ToString(Len(spec.InitContainers)),
              " init containers which are not directly supported in ECS">>)
          EXCEPT !.CanConvert = FALSE]
    ELSE result

validatePodRules(p, skipWarnings) ==
    LET spec == p.Spec
        r1 == validateInitContainers(spec, ValidationResult(p.Name, p.Namespace))
        r2 == validateContainers(spec.Containers, r1)
        r3 == validateVolumes(spec.Volumes, r2)
        r4 == ErrorIf(spec.HostNetwork, r3,
                 S("Pod uses host network mode which may require special ECS configuration"))
        r5 == ErrorIf(spec.HostPID, r4,
                 S("Pod uses host PID namespace which is not supported in ECS Fargate"))
        r6 == ErrorIf(spec.HostIPC, r5,
                 S("Pod uses host IPC namespace which is not supported in ECS Fargate"))
        r7 == WarnIf(spec.ServiceAccountName # Empty
                       /\ spec.ServiceAccountName # S("default"), r6,
                 Concat(<<S("Pod uses service account '"), spec.ServiceAccountName,
                          S("' - ensure appropriate IAM roles are configured for ECS")>>))
        r8 == WarnIf(~IsNil(spec.SecurityContext)
                       /\ ~IsNil(Deref(spec.SecurityContext).RunAsUser), r7,
                 S("Pod specifies RunAsUser - ECS uses task role for permissions"))
        r9 == WarnIf(~IsNil(spec.SecurityContext)
                       /\ ~IsNil(Deref(spec.SecurityContext).FSGroup), r8,
                 S("Pod specifies FSGroup - this is not directly supported in ECS"))
    IN  applySkipWarnings(skipWarnings, r9)

---------------------------------------------------------------------------
(* Library functions the converter calls *)

RECURSIVE Sprintf(_, _)
\* fmt.Sprintf over a format of literal tokens and "%s" verbs: each verb is
\* replaced by the next argument, everything else is copied.
Sprintf(format, args) ==
    IF format = << >> THEN << >>
    ELSE IF Head(format) = "%s"
         THEN Head(args) \o Sprintf(Tail(format), Tail(args))
         ELSE <<Head(format)>> \o Sprintf(Tail(format), args)

\* fmt.Errorf: the formatted text as a non-nil error.
Errorf(format, args) == Ptr(Sprintf(format, args))

RECURSIVE Split(_, _)
\* strings.Split(s, sep) for a one-token separator: the pieces between the
\* separators, empty pieces included; always at least one piece.
Split(s, sep) ==
    IF s = << >> THEN << << >> >>
    ELSE LET rest == Split(Tail(s), sep)
         IN  IF Head(s) = sep
             THEN << << >> >> \o rest
             ELSE << <<Head(s)>> \o Head(rest) >> \o Tail(rest)

\* strings.ToLower on a protocol name.
ToLower(s) ==
    [i \in 1..Len(s) |->
        CASE s[i] = "TCP" -> "tcp"
          [] s[i] = "UDP" -> "udp"
          [] s[i] = "SCTP" -> "sctp"
          [] OTHER -> s[i]]

---------------------------------------------------------------------------
(* pkg/ecs, Pod-native generation of the converter *)

ConversionOptions(prefix, logDriver, logOptions, executionRoleArn, taskRoleArn, skip) ==
    [ParameterStorePrefix |-> prefix,
     DefaultLogDriver |-> logDriver,
     DefaultLogOptions |-> logOptions,
     DefaultExecutionRoleArn |-> executionRoleArn,
     DefaultTaskRoleArn |-> taskRoleArn,
     SkipUnsupportedFeatures |-> skip]

ECSConfig(family, requiresCompatibilities, tags) ==
    [Family |-> family, TaskRoleArn |-> Empty, ExecutionRoleArn |-> Empty,
     NetworkMode |-> Empty,
     RequiresCompatibilities |-> requiresCompatibilities,
     CPU |-> Empty, Memory |-> Empty, Tags |-> tags]

DefaultLogOptionsMap ==
    [k \in {"awslogs-group", "awslogs-region"} |->
        IF k = "awslogs-group" THEN <<"/", "ecs", "/", "task">> ELSE S("us-east-1")]

\* The defaults NewConverter fills in, but for the Parameter-Store prefix.
fillLogDefaults(opts) ==
    LET o1 == IF opts.DefaultLogDriver = Empty
              THEN [opts EXCEPT !.DefaultLogDriver = S("awslogs")]
              ELSE opts
    IN  IF IsNil(o1.DefaultLogOptions)
        THEN [o1 EXCEPT !.DefaultLogOptions = Ptr(DefaultLogOptionsMap)]
        ELSE o1

\* Mutant of NewConverter: an empty Parameter-Store prefix stays empty.
NewConverterKeepsEmptyPrefix(opts) == [options |-> fillLogDefaults(opts)]

NewConverter(opts) ==
    LET o == fillLogDefaults(opts)
    IN  [options |-> IF o.ParameterStorePrefix = Empty
                     THEN [o EXCEPT !.ParameterStorePrefix = <<"/", "pods">>]
                     ELSE o]

getTaskRoleArn(c, cfg) ==
    IF cfg.TaskRoleArn # Empty THEN cfg.TaskRoleArn
    ELSE c.options.DefaultTaskRoleArn

getExecutionRoleArn(c, cfg) ==
    IF cfg.ExecutionRoleArn # Empty THEN cfg.ExecutionRoleArn
    ELSE c.options.DefaultExecutionRoleArn

getNetworkMode(c, cfg) ==
    IF cfg.NetworkMode # Empty THEN cfg.NetworkMode ELSE S("awsvpc")

CompatAnnotation == "ecs.takutakahashi.dev/requires-compatibilities"

\* Mutant of getRequiresCompatibilities: the annotation wins over the list
\* of the ecsConfig.
getRequiresCompatibilitiesAnnotationFirst(c, cfg, podPtr) ==
    IF ~IsNil(podPtr)
       /\ ~IsNil(Deref(podPtr).Annotations)
       /\ CompatAnnotation \in DOMAIN Deref(Deref(podPtr).Annotations)
    THEN Split(Deref(Deref(podPtr).Annotations)[CompatAnnotation], ",")
    ELSE IF Len(cfg.RequiresCompatibilities) > 0 THEN cfg.RequiresCompatibilities
    ELSE << S("FARGATE") >>

\* podPtr is the *corev1.Pod argument, nil when the caller has none.
getRequiresCompatibilities(c, cfg, podPtr) ==
    IF Len(cfg.RequiresCompatibilities) > 0 THEN cfg.RequiresCompatibilities
    ELSE IF ~IsNil(podPtr)
            /\ ~IsNil(Deref(podPtr).Annotations)
            /\ CompatAnnotation \in DOMAIN Deref(Deref(podPtr).Annotations)
         THEN Split(Deref(Deref(podPtr).Annotations)[CompatAnnotation], ",")
         ELSE << S("FARGATE") >>

\* Mutant of getParameterStorePathForSecret: a blank namespace stays blank.
getParameterStorePathForSecretBlankNamespace(c, namespace, secretName, key) ==
    Sprintf(<<"%s", "/", "%s", "/", "secrets", "/", "%s", "/", "%s">>,
            <<c.options.ParameterStorePrefix, namespace, secretName, key>>)

getParameterStorePathForSecret(c, namespace, secretName, key) ==
    LET ns == IF namespace = Empty THEN S("default") ELSE namespace
    IN  Sprintf(<<"%s", "/", "%s", "/", "secrets", "/", "%s", "/", "%s">>,
                <<c.options.ParameterStorePrefix, ns, secretName, key>>)

getParameterStorePathForConfigMap(c, namespace, configMapName, key) ==
    LET ns == IF namespace = Empty THEN S("default") ELSE namespace
    IN  Sprintf(<<"%s", "/", "%s", "/", "configmaps", "/", "%s", "/", "%s">>,
                <<c.options.ParameterStorePrefix, ns, configMapName, key>>)

ECSContainerDefinition(name, image, essential) ==
    [Name |-> name, Image |-> image, CPU |-> 0, Memory |-> 0,
     MemoryReservation |-> 0, Essential |-> essential,
     PortMappings |-> << >>, Environment |-> << >>, Secrets |-> << >>,
     MountPoints |-> << >>, LogConfiguration |-> Nil,
     Command |-> << >>, EntryPoint |-> << >>, WorkingDirectory |-> Empty]

MiB == 1048576

\* Mutant of convertResources: the reservation is set only next to limits.
convertResourcesReservationNeedsLimits(c, container, containerDef) ==
    IF ~IsNil(container.Resources.Limits)
    THEN LET limits == Deref(container.Resources.Limits)
             d1 == [containerDef EXCEPT
                      !.CPU = MilliValue(Cpu(limits)),
                      !.Memory = GoDiv(Value(Memory(limits)), MiB)]
         IN  IF ~IsNil(container.Resources.Requests)
             THEN [d1 EXCEPT !.MemoryReservation =
                     GoDiv(Value(Memory(Deref(container.Resources.Requests))), MiB)]
             ELSE d1
    ELSE containerDef

convertResources(c, container, containerDef) ==
    LET d1 == IF ~IsNil(container.Resources.Limits)
              THEN LET limits == Deref(container.Resources.Limits)
                   IN  [containerDef EXCEPT
                          !.CPU = MilliValue(Cpu(limits)),
                          !.Memory = GoDiv(Value(Memory(limits)), MiB)]
              ELSE containerDef
    IN  IF ~IsNil(container.Resources.Requests)
        THEN [d1 EXCEPT !.MemoryReservation =
                GoDiv(Value(Memory(Deref(container.Resources.Requests))), MiB)]
        ELSE d1

RECURSIVE convertEnvLoop(_, _, _, _, _)
\* The loop of convertEnvironment: the two lists built so far, and the
\* error that ends the loop early.
convertEnvLoop(c, envs, namespace, environment, secrets) ==
    IF envs = << >>
    THEN [environment |-> environment, secrets |-> secrets, err |-> Nil]
    ELSE
      LET env == Head(envs) IN
      IF ~IsNil(env.ValueFrom)
      THEN LET from == Deref(env.ValueFrom) IN
           IF ~IsNil(from.SecretKeyRef)
           THEN convertEnvLoop(c, Tail(envs), namespace, environment,
                  Append(secrets,
                    [Name |-> env.Name,
                     ValueFrom |-> getParameterStorePathForSecret(c, namespace,
                                     Deref(from.SecretKeyRef).Name,
                                     Deref(from.SecretKeyRef).Key)]))
           ELSE IF ~IsNil(from.ConfigMapKeyRef)
           THEN convertEnvLoop(c, Tail(envs), namespace, environment,
                  Append(secrets,
                    [Name |-> env.Name,
                     ValueFrom |-> getParameterStorePathForConfigMap(c, namespace,
                                     Deref(from.ConfigMapKeyRef).Name,
                                     Deref(from.ConfigMapKeyRef).Key)]))
           ELSE IF (~IsNil(from.FieldRef) \/ ~IsNil(from.ResourceFieldRef))
                   /\ ~c.options.SkipUnsupportedFeatures
           THEN [environment |-> environment, secrets |-> secrets,
                 err |-> Errorf(<<"field references", " are not supported in ECS">>, << >>)]
           ELSE convertEnvLoop(c, Tail(envs), namespace, environment, secrets)
      ELSE convertEnvLoop(c, Tail(envs), namespace,
             Append(environment, [Name |-> env.Name, Value |-> env.Value]),
             secrets)

convertEnvironment(c, container, containerDef, namespace) ==
    LET r == convertEnvLoop(c, container.Env, namespace, << >>, << >>)
    IN  IF ~IsNil(r.err) THEN [def |-> containerDef, err |-> r.err]
        ELSE [def |-> [containerDef EXCEPT !.Environment = r.environment,
                                           !.Secrets = r.secrets],
              err |-> Nil]

convertPortMappings(ports) ==
    [i \in 1..Len(ports) |->
        [ContainerPort |-> ports[i].ContainerPort,
         Protocol |-> ToLower(ports[i].Protocol),
         HostPort |-> IF ports[i].HostPort # 0 THEN ports[i].HostPort ELSE 0]]

convertMountPoints(mounts) ==
    [i \in 1..Len(mounts) |->
        [SourceVolume |-> mounts[i].Name,
         ContainerPath |-> mounts[i].MountPath,
         ReadOnly |-> mounts[i].ReadOnly]]

\* Returns the definition behind a pointer, or nil and the error.
convertContainer(c, container, namespace, essential) ==
    LET d0 == ECSContainerDefinition(container.Name, container.Image, essential)
        d1 == convertResources(c, container, d0)
        d2 == [d1 EXCEPT !.PortMappings = convertPortMappings(container.Ports)]
        e  == convertEnvironment(c, container, d2, namespace)
    IN  IF ~IsNil(e.err)
        THEN [def |-> Nil,
              err |-> Errorf(<<"failed to convert environment", ": ", "%s">>,
                             <<Deref(e.err)>>)]
        ELSE [def |-> Ptr([e.def EXCEPT
                        !.EntryPoint = container.Command,
                        !.Command = container.Args,
                        !.WorkingDirectory = container.WorkingDir,
                        !.MountPoints = convertMountPoints(container.VolumeMounts),
                        !.LogConfiguration =
                            Ptr([LogDriver |-> c.options.DefaultLogDriver,
                                 Options |-> c.options.DefaultLogOptions])]),
              err |-> Nil]

RECURSIVE convertContainersLoop(_, _, _, _, _)
convertContainersLoop(c, containers, namespace, isInit, containerDefs) ==
    IF containers = << >> THEN [defs |-> containerDefs, err |-> Nil]
    ELSE LET r == convertContainer(c, Head(containers), namespace, ~isInit)
         IN  IF ~IsNil(r.err)
             THEN [defs |-> << >>,
                   err |-> Errorf(<<"failed to convert container", " ", "%s", ": ", "%s">>,
                                  <<Head(containers).Name, Deref(r.err)>>)]
             ELSE convertContainersLoop(c, Tail(containers), namespace, isInit,
                                        Append(containerDefs, Deref(r.def)))

\* Mutant of convertContainers: the definitions come out in reverse order.
convertContainersReversed(c, containers, namespace, isInit) ==
    convertContainersLoop(c,
        [i \in 1..Len(containers) |-> containers[Len(containers) + 1 - i]],
        namespace, isInit, << >>)

convertContainers(c, containers, namespace, isInit) ==
    convertContainersLoop(c, containers, namespace, isInit, << >>)

RECURSIVE convertVolumesLoop(_, _, _)
convertVolumesLoop(c, volumes, ecsVolumes) ==
    IF volumes = << >> THEN [volumes |-> ecsVolumes, err |-> Nil]
    ELSE
      LET volume == Head(volumes) IN
      IF ~IsNil(volume.HostPath)
      THEN convertVolumesLoop(c, Tail(volumes),
             Append(ecsVolumes,
                    [Name |-> volume.Name,
                     Host |-> Ptr([SourcePath |-> Deref(volume.HostPath).Path])]))
      ELSE IF ~IsNil(volume.EmptyDir)
      THEN convertVolumesLoop(c, Tail(volumes),
             Append(ecsVolumes,
                    [Name |-> volume.Name, Host |-> Ptr([SourcePath |-> Empty])]))
      ELSE IF ~IsNil(volume.Secret) \/ ~IsNil(volume.ConfigMap)
      THEN IF ~c.options.SkipUnsupportedFeatures
           THEN [volumes |-> << >>,
                 err |-> Errorf(<<"secret/configmap volumes",
                                  " are not supported in ECS, use Parameter Store instead">>,
                                << >>)]
           ELSE convertVolumesLoop(c, Tail(volumes), ecsVolumes)
      ELSE IF ~c.options.SkipUnsupportedFeatures
           THEN [volumes |-> << >>,
                 err |-> Errorf(<<"unsupported volume type", " for volume ", "%s">>,
                                <<volume.Name>>)]
           ELSE convertVolumesLoop(c, Tail(volumes), ecsVolumes)

\* Mutant of convertVolumes: an empty-directory volume gets no host entry.
convertVolumesEmptyDirWithoutHost(c, volumes) ==
    LET r == convertVolumesLoop(c, volumes, << >>)
    IN  [r EXCEPT !.volumes =
           [i \in 1..Len(r.volumes) |->
              IF Deref(r.volumes[i].Host).SourcePath = Empty
              THEN [r.volumes[i] EXCEPT !.Host = Nil]
              ELSE r.volumes[i]]]

\* Mutant of convertVolumes: unsupported volumes fail the conversion also
\* when unsupported features are to be skipped.
convertVolumesIgnoresSkip(c, volumes) ==
    convertVolumesLoop([c EXCEPT !.options.SkipUnsupportedFeatures = FALSE],
                       volumes, << >>)

convertVolumes(c, volumes) == convertVolumesLoop(c, volumes, << >>)

\* The tag list in the order the map iteration visits the keys; keyOrder is
\* that order, which Go leaves unspecified.
convertTags(tags, keyOrder) ==
    [i \in 1..Len(keyOrder) |-> [Key |-> keyOrder[i], Value |-> tags[keyOrder[i]]]]

\* The mount points of the definition that name one of the volumes.
MountPointsOf(def, volumes) ==
    LET Names == {volumes[i].Name : i \in 1..Len(volumes)}
        Mounted(m) == m.SourceVolume \in Names
    IN  SelectSeq(def.MountPoints, Mounted)

\* Mutant of ConvertPod: mount points of volumes that were left out are
\* removed from the container definitions.
ConvertPodRemovesDanglingMounts(c, podPtr, podSpec, cfg, namespace, keyOrder) ==
    LET cs == convertContainers(c, podSpec.Containers, namespace, FALSE)
        vs == convertVolumes(c, podSpec.Volumes)
    IN  IF ~IsNil(cs.err)
        THEN [taskDef |-> Nil,
              err |-> Errorf(<<"failed to convert containers", ": ", "%s">>,
                             <<Deref(cs.err)>>)]
        ELSE IF Len(podSpec.InitContainers) > 0 /\ ~c.options.SkipUnsupportedFeatures
        THEN [taskDef |-> Nil,
              err |-> Errorf(<<"init containers", " are not supported in ECS">>, << >>)]
        ELSE IF ~IsNil(vs.err)
        THEN [taskDef |-> Nil,
              err |-> Errorf(<<"failed to convert volumes", ": ", "%s">>,
                             <<Deref(vs.err)>>)]
        ELSE [taskDef |-> Ptr([Family |-> cfg.Family,
                               TaskRoleArn |-> getTaskRoleArn(c, cfg),
                               ExecutionRoleArn |-> getExecutionRoleArn(c, cfg),
                               NetworkMode |-> getNetworkMode(c, cfg),
                               RequiresCompatibilities |->
                                   getRequiresCompatibilities(c, cfg, podPtr),
                               CPU |-> cfg.CPU, Memory |-> cfg.Memory,
                               ContainerDefinitions |->
                                   [i \in 1..Len(cs.defs) |->
                                      [cs.defs[i] EXCEPT !.MountPoints =
                                         MountPointsOf(cs.defs[i], vs.volumes)]],
                               Volumes |-> vs.volumes,
                               Tags |-> convertTags(cfg.Tags, keyOrder)]),
              err |-> Nil]

\* Mutant of ConvertPod: a failure in the volumes keeps the task definition
\* built so far next to the error.
ConvertPodKeepsPartialOutput(c, podPtr, podSpec, cfg, namespace, keyOrder) ==
    LET cs == convertContainers(c, podSpec.Containers, namespace, FALSE)
        vs == convertVolumes(c, podSpec.Volumes)
        taskDef == [Family |-> cfg.Family,
                    TaskRoleArn |-> getTaskRoleArn(c, cfg),
                    ExecutionRoleArn |-> getExecutionRoleArn(c, cfg),
                    NetworkMode |-> getNetworkMode(c, cfg),
                    RequiresCompatibilities |->
                        getRequiresCompatibilities(c, cfg, podPtr),
                    CPU |-> cfg.CPU, Memory |-> cfg.Memory,
                    ContainerDefinitions |-> cs.defs,
                    Volumes |-> vs.volumes,
                    Tags |-> convertTags(cfg.Tags, keyOrder)]
    IN  IF ~IsNil(cs.err)
        THEN [taskDef |-> Nil,
              err |-> Errorf(<<"failed to convert containers", ": ", "%s">>,
                             <<Deref(cs.err)>>)]
        ELSE IF Len(podSpec.InitContainers) > 0 /\ ~c.options.SkipUnsupportedFeatures
        THEN [taskDef |-> Nil,
              err |-> Errorf(<<"init containers", " are not supported in ECS">>, << >>)]
        ELSE [taskDef |-> Ptr(taskDef),
              err |-> IF ~IsNil(vs.err)
                      THEN Errorf(<<"failed to convert volumes", ": ", "%s">>,
                                  <<Deref(vs.err)>>)
                      ELSE Nil]

\* Mutant of ConvertPod: init containers are converted like the others
\* and never refused.
ConvertPodConvertsInitContainers(c, podPtr, podSpec, cfg, namespace, keyOrder) ==
    LET cs == convertContainers(c, podSpec.Containers \o podSpec.InitContainers,
                                namespace, FALSE)
        vs == convertVolumes(c, podSpec.Volumes)
    IN  IF ~IsNil(cs.err)
        THEN [taskDef |-> Nil,
              err |-> Errorf(<<"failed to convert containers", ": ", "%s">>,
                             <<Deref(cs.err)>>)]
        ELSE IF ~IsNil(vs.err)
        THEN [taskDef |-> Nil,
              err |-> Errorf(<<"failed to convert volumes", ": ", "%s">>,
                             <<Deref(vs.err)>>)]
        ELSE [taskDef |-> Ptr([Family |-> cfg.Family,
                               TaskRoleArn |-> getTaskRoleArn(c, cfg),
                               ExecutionRoleArn |-> getExecutionRoleArn(c, cfg),
                               NetworkMode |-> getNetworkMode(c, cfg),
                               RequiresCompatibilities |->
                                   getRequiresCompatibilities(c, cfg, podPtr),
                               CPU |-> cfg.CPU, Memory |-> cfg.Memory,
                               ContainerDefinitions |-> cs.defs,
                               Volumes |-> vs.volumes,
                               Tags |-> convertTags(cfg.Tags, keyOrder)]),
              err |-> Nil]

\* Mutant of ConvertPod: the init containers are looked at before the
\* containers are converted.
ConvertPodChecksInitFirst(c, podPtr, podSpec, cfg, namespace, keyOrder) ==
    LET taskDef == [Family |-> cfg.Family,
                    TaskRoleArn |-> getTaskRoleArn(c, cfg),
                    ExecutionRoleArn |-> getExecutionRoleArn(c, cfg),
                    NetworkMode |-> getNetworkMode(c, cfg),
                    RequiresCompatibilities |-> getRequiresCompatibilities(c, cfg, podPtr),
                    CPU |-> cfg.CPU, Memory |-> cfg.Memory,
                    ContainerDefinitions |-> << >>, Volumes |-> << >>,
                    Tags |-> << >>]
        cs == convertContainers(c, podSpec.Containers, namespace, FALSE)
        vs == convertVolumes(c, podSpec.Volumes)
    IN  IF Len(podSpec.InitContainers) > 0 /\ ~c.options.SkipUnsupportedFeatures
        THEN [taskDef |-> Nil,
              err |-> Errorf(<<"init containers", " are not supported in ECS">>, << >>)]
        ELSE IF ~IsNil(cs.err)
        THEN [taskDef |-> Nil,
              err |-> Errorf(<<"failed to convert containers", ": ", "%s">>,
                             <<Deref(cs.err)>>)]
        ELSE IF ~IsNil(vs.err)
        THEN [taskDef |-> Nil,
              err |-> Errorf(<<"failed to convert volumes", ": ", "%s">>,
                             <<Deref(vs.err)>>)]
        ELSE [taskDef |-> Ptr([taskDef EXCEPT
                            !.ContainerDefinitions = cs.defs,
                            !.Volumes = vs.volumes,
                            !.Tags = convertTags(cfg.Tags, keyOrder)]),
              err |-> Nil]

\* ConvertPod(pod, podSpec, ecsConfig, namespace): the task definition behind
\* a pointer and a nil error, or nil and the error.
ConvertPod(c, podPtr, podSpec, cfg, namespace, keyOrder) ==
    LET taskDef == [Family |-> cfg.Family,
                    TaskRoleArn |-> getTaskRoleArn(c, cfg),
                    ExecutionRoleArn |-> getExecutionRoleArn(c, cfg),
                    NetworkMode |-> getNetworkMode(c, cfg),
                    RequiresCompatibilities |-> getRequiresCompatibilities(c, cfg, podPtr),
                    CPU |-> cfg.CPU, Memory |-> cfg.Memory,
                    ContainerDefinitions |-> << >>, Volumes |-> << >>,
                    Tags |-> << >>]
        cs == convertContainers(c, podSpec.Containers, namespace, FALSE)
        vs == convertVolumes(c, podSpec.Volumes)
    IN  IF ~IsNil(cs.err)
        THEN [taskDef |-> Nil,
              err |-> Errorf(<<"failed to convert containers", ": ", "%s">>,
                             <<Deref(cs.err)>>)]
        ELSE IF Len(podSpec.InitContainers) > 0 /\ ~c.options.SkipUnsupportedFeatures
        THEN [taskDef |-> Nil,
              err |-> Errorf(<<"init containers", " are not supported in ECS">>, << >>)]
        ELSE IF ~IsNil(vs.err)
        THEN [taskDef |-> Nil,
              err |-> Errorf(<<"failed to convert volumes", ": ", "%s">>,
                             <<Deref(vs.err)>>)]
        ELSE [taskDef |-> Ptr([taskDef EXCEPT
                            !.ContainerDefinitions = cs.defs,
                            !.Volumes = vs.volumes,
                            !.Tags = convertTags(cfg.Tags, keyOrder)]),
              err |-> Nil]

\* Converter.Convert: ConvertPod without the Pod's metadata.
Convert(c, podSpec, cfg, namespace, keyOrder) ==
    ConvertPod(c, Nil, podSpec, cfg, namespace, keyOrder)

ConvertFromPod(c, p, cfg, keyOrder) ==
    Convert(c, p.Spec, cfg, p.Namespace, keyOrder)

\* podWithConfig carries the ECSConfig in the object itself.
ConvertFromPodWithConfig(c, podWithConfig, keyOrder) ==
    Convert(c, podWithConfig.Spec, podWithConfig.ECSConfig,
            podWithConfig.Namespace, keyOrder)

---------------------------------------------------------------------------
(* pkg/ecs, options-only generation of the converter; its functions carry
   an X where the Pod-native generation has one of the same name *)

XNewConverter(opts) ==
    LET o == fillLogDefaults(opts)
    IN  [options |-> IF o.ParameterStorePrefix = Empty
                     THEN [o EXCEPT !.ParameterStorePrefix = <<"/", "xpod">>]
                     ELSE o]

XgetParameterStorePathForSecret(c, secretName, key) ==
    Sprintf(<<"%s", "/", "secrets", "/", "%s", "/", "%s">>,
            <<c.options.ParameterStorePrefix, secretName, key>>)

XgetParameterStorePathForConfigMap(c, configMapName, key) ==
    Sprintf(<<"%s", "/", "configmaps", "/", "%s", "/", "%s">>,
            <<c.options.ParameterStorePrefix, configMapName, key>>)

---------------------------------------------------------------------------
(* cmd/pod-to-ecs-check, converter-backed generation *)

\* strings.Contains for a pattern that is one token of the error texts.
Contains(text, pattern) == \E i \in 1..Len(text) : text[i] = pattern

\* Mutant of categorizeConversionError: the generic error is added whatever
\* matched.
categorizeConversionErrorAlwaysGeneric(errStr, result) ==
    LET r1 == UnsupportedIf(Contains(errStr, "init containers"), result,
                 S("Pod has init containers which are not directly supported in ECS"))
        r2 == UnsupportedIf(Contains(errStr, "secret/configmap volumes"), r1,
                 S("Pod uses secret/configmap volumes - use Parameter Store instead"))
        r3 == UnsupportedIf(Contains(errStr, "field references"), r2,
                 S("Pod uses field references which are not supported in ECS"))
        r4 == IF Contains(errStr, "unsupported volume type")
              THEN [r3 EXCEPT !.Errors =
                      Append(@, S("Pod uses unsupported volume types for ECS"))]
              ELSE r3
    IN  [r4 EXCEPT !.Errors =
           Append(@, Sprintf(<<"Conversion failed: ", "%s">>, <<errStr>>))]

categorizeConversionError(errStr, result) ==
    LET r1 == UnsupportedIf(Contains(errStr, "init containers"), result,
                 S("Pod has init containers which are not directly supported in ECS"))
        r2 == UnsupportedIf(Contains(errStr, "secret/configmap volumes"), r1,
                 S("Pod uses secret/configmap volumes - use Parameter Store instead"))
        r3 == UnsupportedIf(Contains(errStr, "field references"), r2,
                 S("Pod uses field references which are not supported in ECS"))
        \* This append leaves CanConvert alone; the caller has cleared it.
        r4 == IF Contains(errStr, "unsupported volume type")
              THEN [r3 EXCEPT !.Errors =
                      Append(@, S("Pod uses unsupported volume types for ECS"))]
              ELSE r3
    IN  IF Len(r4.Errors) = 0 /\ Len(r4.UnsupportedInfo) = 0
        THEN [r4 EXCEPT !.Errors =
                Append(@, Sprintf(<<"Conversion failed: ", "%s">>, <<errStr>>))]
        ELSE r4

addEnvWarning(container, env, result) ==
    IF IsNil(env.ValueFrom) THEN result
    ELSE
      LET from == Deref(env.ValueFrom)
          r1 == WarnIf(~IsNil(from.SecretKeyRef), result,
                   Concat(<<S("Container '"), container.Name,
                            S("' references secret '"),
                            Deref(from.SecretKeyRef).Name,
                            S("' - ensure it's migrated to Parameter Store")>>))
      IN  WarnIf(~IsNil(from.ConfigMapKeyRef), r1,
             Concat(<<S("Container '"), container.Name,
                      S("' references configmap '"),
                      Deref(from.ConfigMapKeyRef).Name,
                      S("' - ensure it's migrated to Parameter Store")>>))

RECURSIVE addEnvWarnings(_, _, _)
addEnvWarnings(container, envs, result) ==
    IF envs = << >> THEN result
    ELSE addEnvWarnings(container, Tail(envs),
                        addEnvWarning(container, Head(envs), result))

addContainerWarnings(container, result) ==
    LET r1 == WarnIf(~IsNil(container.SecurityContext)
                       /\ ~IsNil(Deref(container.SecurityContext).Privileged)
                       /\ Deref(Deref(container.SecurityContext).Privileged), result,
                 Concat(<<S("Container '"), container.Name,
                          S("' requires privileged mode - not supported in ECS Fargate")>>))
        r2 == WarnIf(IsNil(container.Resources.Limits)
                       /\ IsNil(container.Resources.Requests), r1,
                 Concat(<<S("Container '"), container.Name,
                          S("' has no resource limits/requests - ECS requires CPU and memory specification")>>))
        r3 == WarnIf(~IsNil(container.LivenessProbe), r2,
                 Concat(<<S("Container '"), container.Name,
                          S("' has liveness probe - ECS health checks work differently")>>))
        r4 == WarnIf(~IsNil(container.ReadinessProbe), r3,
                 Concat(<<S("Container '"), container.Name,
                          S("' has readiness probe - ECS uses target group health checks")>>))
    IN  addEnvWarnings(container, container.Env, r4)

RECURSIVE addContainersWarnings(_, _)
addContainersWarnings(containers, result) ==
    IF containers = << >> THEN result
    ELSE addContainersWarnings(Tail(containers),
                               addContainerWarnings(Head(containers), result))

RECURSIVE addVolumeWarnings(_, _)
addVolumeWarnings(volumes, result) ==
    IF volumes = << >> THEN result
    ELSE addVolumeWarnings(Tail(volumes),
           WarnIf(~IsNil(Head(volumes).HostPath), result,
              Concat(<<S("Volume '"), Head(volumes).Name,
                       S("' uses hostPath - ensure the path is available in ECS")>>)))

addWarnings(p, result) ==
    LET r1 == WarnIf(p.Spec.HostNetwork, result,
                 S("Pod uses host network - ensure ECS task configuration supports this"))
        r2 == addContainersWarnings(p.Spec.Containers, r1)
        r3 == WarnIf(p.Spec.ServiceAccountName # Empty
                       /\ p.Spec.ServiceAccountName # S("default"), r2,
                 Concat(<<S("Pod uses service account '"), p.Spec.ServiceAccountName,
                          S("' - ensure appropriate IAM roles are configured for ECS")>>))
    IN  addVolumeWarnings(p.Spec.Volumes, r3)

\* The options and the ECSConfig validatePod builds for its trial conversion.
\* Mutant of validateOptions: unsupported features are not skipped.
validateOptionsStrict ==
    ConversionOptions(<<"/", "pods">>, S("awslogs"), Nil,
        S("arn:aws:iam::123456789012:role/ecsTaskExecutionRole"),
        S("arn:aws:iam::123456789012:role/ecsTaskRole"),
        FALSE)

validateOptions ==
    ConversionOptions(<<"/", "pods">>, S("awslogs"),
        Ptr([k \in {"awslogs-group", "awslogs-region"} |->
                IF k = "awslogs-group" THEN <<"/", "ecs", "/", "pods">>
                ELSE S("us-east-1")]),
        S("arn:aws:iam::123456789012:role/ecsTaskExecutionRole"),
        S("arn:aws:iam::123456789012:role/ecsTaskRole"),
        TRUE)

validateECSConfig(p) ==
    [ECSConfig(Sprintf(<<"%s", "-", "%s">>, <<p.Namespace, p.Name>>),
               << S("FARGATE") >>, << >>)
     EXCEPT !.CPU = S("256"), !.Memory = S("512")]

validatePodConverter(p, skipWarnings) ==
    LET r0 == ValidationResult(p.Name, p.Namespace)
        c  == NewConverter(validateOptions)
        namespace == IF p.Namespace = Empty THEN S("default") ELSE p.Namespace
        conv == Convert(c, p.Spec, validateECSConfig(p), namespace, << >>)
        r1 == IF ~IsNil(conv.err)
              THEN categorizeConversionError(Deref(conv.err),
                                             [r0 EXCEPT !.CanConvert = FALSE])
              ELSE r0
    IN  applySkipWarnings(skipWarnings, addWarnings(p, r1))

\* validatePod of the generation in use.
validatePod(g, p, skipWarnings) ==
    IF g = "rule" THEN validatePodRules(p, skipWarnings)
    ELSE validatePodConverter(p, skipWarnings)

---------------------------------------------------------------------------
(* Inputs *)

\* Containers, init containers and volumes of one Pod, taken together.
MaxPodItems == 2

BoundedSeq(set, n) == UNION {[1..k -> set] : k \in 0..n}

Limits100m128Mi ==
    Ptr([k \in {"cpu", "memory"} |->
           IF k = "cpu" THEN Quantity(FALSE, 0, 100)
           ELSE Quantity(FALSE, 128 * MiB, 0)])

Requests256Mi == Ptr([k \in {"memory"} |-> Quantity(FALSE, 256 * MiB, 0)])

\* A container with limits and nothing the tools remark on.
AppContainer ==
    [Container(S("app"), S("app:latest")) EXCEPT
        !.Resources.Limits = Limits100m128Mi,
        !.Ports = << ContainerPort(80, 0, S("TCP")), ContainerPort(53, 5353, S("UDP")) >>,
        !.Command = << S("/bin/sh") >>,
        !.Args = << S("-c"), S("echo hello") >>,
        !.WorkingDir = S("/app")]

\* No image and no resources.
NoImageContainer == Container(S("noimg"), Empty)

PrivilegedContainer ==
    [Container(S("priv"), S("app:latest")) EXCEPT
        !.Resources.Limits = Limits100m128Mi,
        !.SecurityContext =
            Ptr(SecurityContext(Ptr(TRUE), Ptr([Add |-> << S("NET_ADMIN") >>])))]

\* Literal, secret and config-map environment entries, a probe, and mounts
\* of the volumes "data" and "creds".
EnvContainer ==
    [Container(S("web"), S("nginx:latest")) EXCEPT
        !.Resources.Requests = Requests256Mi,
        !.LivenessProbe = Ptr("probe"),
        !.VolumeMounts = << VolumeMount(S("data"), S("/data"), FALSE),
                            VolumeMount(S("creds"), S("/etc/creds"), TRUE) >>,
        !.Env = << EnvVar(S("DATABASE_URL"), S("postgres://db"), Nil),
                   EnvVar(S("API_KEY"), Empty,
                          Ptr(EnvSource(Ptr(KeyRef(S("api-secret"), S("api-key"))),
                                        Nil, Nil, Nil))),
                   EnvVar(S("CONFIG_VALUE"), Empty,
                          Ptr(EnvSource(Nil,
                                        Ptr(KeyRef(S("app-config"), S("config-value"))),
                                        Nil, Nil))) >>]

\* Field and resource-field references, an unprivileged security context.
FieldRefContainer ==
    [Container(S("meta"), S("app:latest")) EXCEPT
        !.Resources.Limits = Limits100m128Mi,
        !.ReadinessProbe = Ptr("probe"),
        !.SecurityContext = Ptr(SecurityContext(Ptr(FALSE), Nil)),
        !.Env = << EnvVar(S("POD_NAME"), Empty,
                          Ptr(EnvSource(Nil, Nil, Ptr("metadata.name"), Nil))),
                   EnvVar(S("CPU_LIMIT"), Empty,
                          Ptr(EnvSource(Nil, Nil, Nil, Ptr("limits.cpu")))) >>]

ContainerSet ==
    {AppContainer, NoImageContainer, PrivilegedContainer, EnvContainer,
     FieldRefContainer}

InitContainer == Container(S("init"), S("busybox"))

\* One volume per volume source the tools tell apart, and one with a
\* source none of them knows.
VolumeSet ==
    { [Volume(S("host")) EXCEPT !.HostPath = Ptr([Path |-> <<"/", "opt", "/", "data">>])],
      [Volume(S("data")) EXCEPT !.EmptyDir = Ptr("emptyDir")],
      [Volume(S("claim")) EXCEPT !.PersistentVolumeClaim = Ptr("data-pvc")],
      [Volume(S("nfs")) EXCEPT !.NFS = Ptr("nfs-server")],
      [Volume(S("creds")) EXCEPT !.Secret = Ptr([SecretName |-> S("my-secret")])],
      [Volume(S("conf")) EXCEPT !.ConfigMap = Ptr([Name |-> S("my-config")])],
      Volume(S("other")) }

PodSpecs ==
    { PodSpec(t[1], t[2], t[3]) :
        t \in { u \in BoundedSeq(ContainerSet, MaxPodItems)
                      \X BoundedSeq({InitContainer}, MaxPodItems)
                      \X BoundedSeq(VolumeSet, MaxPodItems) :
                Len(u[1]) + Len(u[2]) + Len(u[3]) <= MaxPodItems } }

PodSecurityContext(runAsUser, fsGroup) ==
    [RunAsUser |-> runAsUser, FSGroup |-> fsGroup]

\* The Pod-level settings the check tool reads.
PodLevelSettings ==
    [ServiceAccountName : {Empty, S("default"), S("custom-sa")},
     HostNetwork : BOOLEAN, HostPID : BOOLEAN, HostIPC : BOOLEAN,
     SecurityContext : {Nil, Ptr(PodSecurityContext(Ptr(1000), Nil)),
                        Ptr(PodSecurityContext(Nil, Ptr(2000)))}]

WithSettings(spec, s) ==
    [spec EXCEPT !.ServiceAccountName = s.ServiceAccountName,
                 !.HostNetwork = s.HostNetwork,
                 !.HostPID = s.HostPID,
                 !.HostIPC = s.HostIPC,
                 !.SecurityContext = s.SecurityContext]

ValidatorPods ==
    { Pod(S("test-pod"), S("default"), Nil, WithSettings(spec, s)) :
        spec \in PodSpecs, s \in PodLevelSettings }

NoOptions == ConversionOptions(Empty, Empty, Nil, Empty, Empty, FALSE)

NoECSConfig == ECSConfig(Empty, << >>, << >>)

\* summary := ValidationSummary{TotalPods: len(pods.Items), Results: ...}
NewSummary(items) ==
    [TotalPods |-> Len(items), ConvertiblePods |-> 0, FailedPods |-> 0,
     Results |-> << >>]

\* The main function of the check tool not started: no Pods listed, an
\* empty summary, no exit status.
MainIdle ==
    /\ pods = << >>
    /\ pc = "idle"
    /\ idx = 1
    /\ summary = NewSummary(<< >>)
    /\ exitStatus = Nil

\* No controller running: no cluster, nothing queued.
WatchIdle ==
    /\ cluster = << >>
    /\ queue = {}

---------------------------------------------------------------------------
(* The check tool validating one Pod, with and without -skip-warnings *)

InitValidate ==
    /\ gen \in {"rule", "converter"}
    /\ pod \in ValidatorPods
    /\ vres = [sw \in BOOLEAN |-> Nil]
    /\ options = NoOptions
    /\ converter = Nil
    /\ ecsConfig = NoECSConfig
    /\ call = << >>
    /\ outs = << >>
    /\ MainIdle
    /\ threads = << >>
    /\ WatchIdle

\* result := validatePod(&pod, skipWarnings)
ValidatePod(skipWarnings) ==
    /\ IsNil(vres[skipWarnings])
    /\ vres' = [vres EXCEPT ![skipWarnings] = Ptr(validatePod(gen, pod, skipWarnings))]
    /\ UNCHANGED <<gen, pod, options, converter, ecsConfig, call, outs, mainVars, threads, watchVars>>

NextValidate == \E skipWarnings \in BOOLEAN : ValidatePod(skipWarnings)

SpecValidate == InitValidate /\ [][NextValidate]_vars

---------------------------------------------------------------------------
(* Properties of validatePod *)

Done(skipWarnings) == ~IsNil(vres[skipWarnings])

Result(skipWarnings) == Deref(vres[skipWarnings])

HasEmptyImage(spec) ==
    \E i \in 1..Len(spec.Containers) : spec.Containers[i].Image = Empty

HasPrivileged(spec) ==
    \E i \in 1..Len(spec.Containers) :
        /\ ~IsNil(spec.Containers[i].SecurityContext)
        /\ ~IsNil(Deref(spec.Containers[i].SecurityContext).Privileged)
        /\ Deref(Deref(spec.Containers[i].SecurityContext).Privileged)

HasClaimOrNFS(spec) ==
    \E i \in 1..Len(spec.Volumes) :
        ~IsNil(spec.Volumes[i].PersistentVolumeClaim) \/ ~IsNil(spec.Volumes[i].NFS)

HasHostNamespace(spec) == spec.HostNetwork \/ spec.HostPID \/ spec.HostIPC

\* C1 as stated: validatePod(pod, skipWarnings = true) returns an empty
\* Warnings list for every Pod, convertible or not, in both generations.
C1_SkipWarningsEmptiesWarnings ==
    Done(TRUE) => Result(TRUE).Warnings = << >>

\* C2: the runs with skipWarnings = true and skipWarnings = false of the same
\* Pod return the same CanConvert, the same Errors and the same
\* UnsupportedInfo, in both generations.
C2_SkipWarningsFrame ==
    (Done(TRUE) /\ Done(FALSE)) =>
        /\ Result(TRUE).CanConvert = Result(FALSE).CanConvert
        /\ Result(TRUE).Errors = Result(FALSE).Errors
        /\ Result(TRUE).UnsupportedInfo = Result(FALSE).UnsupportedInfo

\* Both runs are done, the flag did remove warnings, and there are notes
\* on unsupported features that it had to leave alone.
C2_Witness ==
    /\ Done(TRUE) /\ Done(FALSE)
    /\ Result(FALSE).Warnings # << >>
    /\ Result(TRUE).Warnings = << >>
    /\ Result(TRUE).UnsupportedInfo # << >>

\* C3 as stated: the rule-based validatePod returns CanConvert = true and no
\* errors for every Pod with no init containers, no host namespace, no
\* privileged container and no persistent-volume-claim or NFS volume.
C3_CleanPodConvertible ==
    \A sw \in BOOLEAN :
        (/\ gen = "rule" /\ Done(sw)
         /\ Len(pod.Spec.InitContainers) = 0
         /\ ~HasHostNamespace(pod.Spec)
         /\ ~HasPrivileged(pod.Spec)
         /\ ~HasClaimOrNFS(pod.Spec))
        => (Result(sw).CanConvert /\ Result(sw).Errors = << >>)

\* C3 amended: the same, for Pods that also have no container with an empty
\* image.
C3_CleanPodWithImagesConvertible ==
    \A sw \in BOOLEAN :
        (/\ gen = "rule" /\ Done(sw)
         /\ Len(pod.Spec.InitContainers) = 0
         /\ ~HasHostNamespace(pod.Spec)
         /\ ~HasPrivileged(pod.Spec)
         /\ ~HasEmptyImage(pod.Spec)
         /\ ~HasClaimOrNFS(pod.Spec))
        => (Result(sw).CanConvert /\ Result(sw).Errors = << >>)

\* Such a Pod that still carries warnings and a secret volume was validated.
C3_Witness ==
    /\ gen = "rule" /\ Done(FALSE)
    /\ Len(pod.Spec.InitContainers) = 0
    /\ ~HasHostNamespace(pod.Spec)
    /\ ~HasPrivileged(pod.Spec)
    /\ ~HasEmptyImage(pod.Spec)
    /\ ~HasClaimOrNFS(pod.Spec)
    /\ Len(pod.Spec.Containers) > 0
    /\ \E i \in 1..Len(pod.Spec.Volumes) : ~IsNil(pod.Spec.Volumes[i].Secret)
    /\ Result(FALSE).Warnings # << >>
    /\ Result(FALSE).UnsupportedInfo # << >>
    /\ Result(FALSE).CanConvert

\* C4: in the rule-based validator a Pod with a container whose image is
\* empty gets at least one error and CanConvert = false, whatever else it
\* holds and whatever skipWarnings is.
C4_EmptyImageIsError ==
    \A sw \in BOOLEAN :
        (gen = "rule" /\ Done(sw) /\ HasEmptyImage(pod.Spec))
        => (Len(Result(sw).Errors) >= 1 /\ ~Result(sw).CanConvert)

\* A Pod whose only finding that blocks conversion is the empty image was
\* validated with skipWarnings set.
C4_Witness ==
    /\ gen = "rule" /\ Done(TRUE)
    /\ HasEmptyImage(pod.Spec)
    /\ Len(pod.Spec.InitContainers) = 0
    /\ ~HasHostNamespace(pod.Spec)
    /\ ~HasPrivileged(pod.Spec)
    /\ ~HasClaimOrNFS(pod.Spec)
    /\ Len(Result(TRUE).Errors) = 1

---------------------------------------------------------------------------
(* A caller of the library: NewConverter, then the functions of the
   converter; outs holds, per function called, what it returned *)

Called(f) == f \in DOMAIN outs /\ ~IsNil(outs[f])

Returned(f) == Deref(outs[f])

\* converter := ecs.NewConverter(options), in the generation that is running.
NewConverterStep ==
    /\ IsNil(converter)
    /\ converter' = Ptr(IF gen = "xpod" THEN XNewConverter(options)
                        ELSE NewConverter(options))
    /\ UNCHANGED <<gen, pod, vres, options, ecsConfig, call, outs, mainVars, threads, watchVars>>

\* The orders in which a range over the map m can visit its keys.
KeyOrders(m) ==
    {o \in [1..Cardinality(DOMAIN m) -> DOMAIN m] :
        \A i, j \in DOMAIN o : i # j => o[i] # o[j]}

\* taskDef, err := converter.ConvertPod(&pod, &pod.Spec, ecsConfig, ns)
ConvertPodStep ==
    /\ ~IsNil(converter)
    /\ IsNil(outs["ConvertPod"])
    /\ \E keyOrder \in KeyOrders(ecsConfig.Tags) :
         outs' = [outs EXCEPT !["ConvertPod"] =
                    Ptr(ConvertPod(Deref(converter), Ptr(pod), pod.Spec, ecsConfig,
                                   pod.Namespace, keyOrder))]
    /\ UNCHANGED <<gen, pod, vres, options, converter, ecsConfig, call, mainVars, threads, watchVars>>

---------------------------------------------------------------------------
(* ConvertPod on Pods with and without init containers *)

Tags2 ==
    [k \in {"env", "team"} |-> IF k = "env" THEN S("prod") ELSE S("platform")]

ConvertPods ==
    { Pod(S("test-pod"), ns, Nil, spec) :
        ns \in {Empty, S("test-namespace")}, spec \in PodSpecs }

InitConvert ==
    /\ gen = "pod"
    /\ pod \in ConvertPods
    /\ vres = << >>
    /\ options \in { ConversionOptions(Empty, Empty, Nil, Empty, Empty, skip) :
                       skip \in BOOLEAN }
    /\ converter = Nil
    /\ ecsConfig \in { ECSConfig(S("test-family"), << >>, tags) :
                         tags \in {<< >>, Tags2} }
    /\ call = << >>
    /\ outs = [f \in {"ConvertPod"} |-> Nil]
    /\ MainIdle
    /\ threads = << >>
    /\ WatchIdle

NextConvert == NewConverterStep \/ ConvertPodStep

SpecConvert == InitConvert /\ [][NextConvert]_vars

\* The definitions convertContainer gives for the containers of the list.
ConversionsOf(containers, namespace) ==
    [i \in 1..Len(containers) |->
        Deref(convertContainer(Deref(converter), containers[i], namespace, TRUE).def)]

\* C5: ConvertPod on a Pod with at least one init container returns an error
\* and a nil task definition when SkipUnsupportedFeatures is false; when it
\* is true and the call does not fail, it returns a task definition whose
\* ContainerDefinitions are the conversions of the regular containers, one
\* per container and in their order, none of them from an init container.
C5_InitContainersRefusedOrSkipped ==
    (Called("ConvertPod") /\ Len(pod.Spec.InitContainers) > 0) =>
        LET r == Returned("ConvertPod") IN
        IF ~options.SkipUnsupportedFeatures
        THEN ~IsNil(r.err) /\ IsNil(r.taskDef)
        ELSE IsNil(r.err) =>
               /\ ~IsNil(r.taskDef)
               /\ LET defs == Deref(r.taskDef).ContainerDefinitions IN
                  /\ defs = ConversionsOf(pod.Spec.Containers, pod.Namespace)
                  /\ Len(defs) = Len(pod.Spec.Containers)
                  /\ \A i \in 1..Len(defs) :
                       /\ defs[i].Name = pod.Spec.Containers[i].Name
                       /\ defs[i].Image = pod.Spec.Containers[i].Image
                       /\ defs[i].Essential
                       /\ \A j \in 1..Len(pod.Spec.InitContainers) :
                            defs[i].Name # pod.Spec.InitContainers[j].Name

\* A Pod with an init container and a regular container was converted with
\* SkipUnsupportedFeatures set, and a task definition came back.
C5_Witness ==
    /\ Called("ConvertPod")
    /\ Len(pod.Spec.InitContainers) > 0
    /\ Len(pod.Spec.Containers) > 0
    /\ options.SkipUnsupportedFeatures
    /\ ~IsNil(Returned("ConvertPod").taskDef)
    /\ Len(Deref(Returned("ConvertPod").taskDef).ContainerDefinitions) = 1

---------------------------------------------------------------------------
(* The four entry points of the conversion on an annotated Pod *)

\* Tokens of one annotation value.
MaxAnnotationLen == 4

AnnotationTokens == {"FARGATE", "EXTERNAL", ",", " "}

\* No annotations, annotations without the key, the key with each value.
AnnotationMaps ==
    {Nil, Ptr([k \in {"app"} |-> S("demo")])}
      \cup { Ptr([k \in {CompatAnnotation} |-> v]) :
               v \in BoundedSeq(AnnotationTokens, MaxAnnotationLen) }

CompatPods ==
    { Pod(S("test-pod"), S("default"), a, PodSpec(<<AppContainer>>, << >>, << >>)) :
        a \in AnnotationMaps }

CompatLists == {<< >>, << S("EC2") >>, << S("EXTERNAL"), S("FARGATE") >>}

Entries == {"ConvertPod", "Convert", "ConvertFromPod", "ConvertFromPodWithConfig"}

InitCompat ==
    /\ gen = "pod"
    /\ pod \in CompatPods
    /\ vres = << >>
    /\ options = NoOptions
    /\ converter = Nil
    /\ ecsConfig \in { ECSConfig(S("test-family"), l, << >>) : l \in CompatLists }
    /\ call = << >>
    /\ outs = [f \in Entries |-> Nil]
    /\ MainIdle
    /\ threads = << >>
    /\ WatchIdle

\* taskDef, err := converter.Convert(&pod.Spec, ecsConfig, pod.Namespace)
ConvertStep ==
    /\ ~IsNil(converter)
    /\ IsNil(outs["Convert"])
    /\ \E keyOrder \in KeyOrders(ecsConfig.Tags) :
         outs' = [outs EXCEPT !["Convert"] =
                    Ptr(Convert(Deref(converter), pod.Spec, ecsConfig,
                                pod.Namespace, keyOrder))]
    /\ UNCHANGED <<gen, pod, vres, options, converter, ecsConfig, call, mainVars, threads, watchVars>>

\* taskDef, err := ecs.ConvertFromPod(converter, &pod, ecsConfig)
ConvertFromPodStep ==
    /\ ~IsNil(converter)
    /\ IsNil(outs["ConvertFromPod"])
    /\ \E keyOrder \in KeyOrders(ecsConfig.Tags) :
         outs' = [outs EXCEPT !["ConvertFromPod"] =
                    Ptr(ConvertFromPod(Deref(converter), pod, ecsConfig, keyOrder))]
    /\ UNCHANGED <<gen, pod, vres, options, converter, ecsConfig, call, mainVars, threads, watchVars>>

\* The Pod and the ECSConfig in one PodWithECSConfig object.
PodWithECSConfig(p, cfg) ==
    [Name |-> p.Name, Namespace |-> p.Namespace, Annotations |-> p.Annotations,
     Spec |-> p.Spec, ECSConfig |-> cfg]

\* taskDef, err := ecs.ConvertFromPodWithConfig(converter, &podWithConfig)
ConvertFromPodWithConfigStep ==
    /\ ~IsNil(converter)
    /\ IsNil(outs["ConvertFromPodWithConfig"])
    /\ \E keyOrder \in KeyOrders(ecsConfig.Tags) :
         outs' = [outs EXCEPT !["ConvertFromPodWithConfig"] =
                    Ptr(ConvertFromPodWithConfig(Deref(converter),
                                                 PodWithECSConfig(pod, ecsConfig),
                                                 keyOrder))]
    /\ UNCHANGED <<gen, pod, vres, options, converter, ecsConfig, call, mainVars, threads, watchVars>>

NextCompat ==
    \/ NewConverterStep
    \/ ConvertPodStep
    \/ ConvertStep
    \/ ConvertFromPodStep
    \/ ConvertFromPodWithConfigStep

SpecCompat == InitCompat /\ [][NextCompat]_vars

HasCompatAnnotation ==
    ~IsNil(pod.Annotations) /\ CompatAnnotation \in DOMAIN Deref(pod.Annotations)

CompatAnnotationValue == Deref(pod.Annotations)[CompatAnnotation]

\* The RequiresCompatibilities of the task definition the entry point f
\* returned.
CompatOf(f) == Deref(Returned(f).taskDef).RequiresCompatibilities

RECURSIVE JoinWith(_, _)
\* The pieces in their order with sep between neighbours.
JoinWith(pieces, sep) ==
    IF Len(pieces) = 0 THEN << >>
    ELSE IF Len(pieces) = 1 THEN Head(pieces)
    ELSE Head(pieces) \o <<sep>> \o JoinWith(Tail(pieces), sep)

\* pieces is the comma-split of value: the pieces hold no comma, and put
\* back together with commas, in their order, they are the value.
IsCommaSplit(pieces, value) ==
    /\ Len(pieces) >= 1
    /\ \A i \in 1..Len(pieces) : \A j \in 1..Len(pieces[i]) : pieces[i][j] # ","
    /\ JoinWith(pieces, ",") = value

\* C8: ConvertPod sets RequiresCompatibilities to the list of the ecsConfig
\* when that list is non-empty; otherwise, when the Pod has the annotation,
\* to the comma-split of its value in the annotation's order
\* ("FARGATE,EXTERNAL" gives ["FARGATE", "EXTERNAL"]); otherwise to
\* ["FARGATE"].
C8_RequiresCompatibilitiesOrder ==
    Called("ConvertPod") =>
        /\ IsNil(Returned("ConvertPod").err)
        /\ IF Len(ecsConfig.RequiresCompatibilities) > 0
           THEN CompatOf("ConvertPod") = ecsConfig.RequiresCompatibilities
           ELSE IF HasCompatAnnotation
           THEN /\ IsCommaSplit(CompatOf("ConvertPod"), CompatAnnotationValue)
                /\ CompatAnnotationValue = <<"FARGATE", ",", "EXTERNAL">>
                     => CompatOf("ConvertPod") = << S("FARGATE"), S("EXTERNAL") >>
           ELSE CompatOf("ConvertPod") = << S("FARGATE") >>

\* ConvertPod took the list ["FARGATE", "EXTERNAL"] from the annotation.
C8_Witness ==
    /\ Called("ConvertPod")
    /\ Len(ecsConfig.RequiresCompatibilities) = 0
    /\ HasCompatAnnotation
    /\ CompatAnnotationValue = <<"FARGATE", ",", "EXTERNAL">>
    /\ CompatOf("ConvertPod") = << S("FARGATE"), S("EXTERNAL") >>

\* A string with a blank at its start or its end.
HasOuterWhitespace(str) ==
    Len(str) > 0 /\ (str[1] = " " \/ str[Len(str)] = " ")

\* C9 as stated: the values ConvertPod takes from the annotation are
\* trimmed, so no element of RequiresCompatibilities starts or ends with
\* whitespace ("FARGATE, EXTERNAL" gives ["FARGATE", "EXTERNAL"]).
C9_AnnotationValuesTrimmed ==
    (/\ Called("ConvertPod")
     /\ Len(ecsConfig.RequiresCompatibilities) = 0
     /\ HasCompatAnnotation)
    => \A i \in 1..Len(CompatOf("ConvertPod")) :
          ~HasOuterWhitespace(CompatOf("ConvertPod")[i])

\* C10 as stated: for a Pod with the annotation and an ecsConfig without a
\* list, Convert, ConvertFromPod and ConvertFromPodWithConfig return the
\* RequiresCompatibilities that ConvertPod returns for that Pod.
C10_EntryPointsAgree ==
    \A f \in {"Convert", "ConvertFromPod", "ConvertFromPodWithConfig"} :
        (/\ Called("ConvertPod") /\ Called(f)
         /\ Len(ecsConfig.RequiresCompatibilities) = 0
         /\ HasCompatAnnotation)
        => CompatOf(f) = CompatOf("ConvertPod")

---------------------------------------------------------------------------
(* convertResources on one container *)

\* CPU quantities: 500m, 1, 2250m and none.
CpuQuantities ==
    {Quantity(FALSE, 0, 500), Quantity(FALSE, 1, 0), Quantity(FALSE, 2, 250),
     ZeroQuantity}

\* Memory quantities in bytes: 512Mi, 256Mi, 1Gi, 1.5Mi, one byte short of
\* 1Mi, 1Mi and a half byte (which Value rounds up), 100 bytes, and a
\* negative quantity of 1.5Mi.
MemoryQuantities ==
    {Quantity(FALSE, 512 * MiB, 0), Quantity(FALSE, 256 * MiB, 0),
     Quantity(FALSE, 1024 * MiB, 0), Quantity(FALSE, MiB + (MiB \div 2), 0),
     Quantity(FALSE, MiB - 1, 0), Quantity(FALSE, MiB - 1, 500),
     Quantity(FALSE, 100, 0), Quantity(TRUE, MiB + (MiB \div 2), 0)}

\* A nil list, an empty one, and the lists with a CPU quantity, a memory
\* quantity or both.
ResourceLists ==
    {Nil, Ptr(<< >>)}
      \cup { Ptr([k \in {"cpu"} |-> c]) : c \in CpuQuantities }
      \cup { Ptr([k \in {"memory"} |-> m]) : m \in MemoryQuantities }
      \cup { Ptr([k \in {"cpu", "memory"} |-> IF k = "cpu" THEN c ELSE m]) :
               c \in CpuQuantities, m \in MemoryQuantities }

InitResources ==
    /\ gen = "pod"
    /\ pod = Pod(S("test-pod"), S("default"), Nil, PodSpec(<< >>, << >>, << >>))
    /\ vres = << >>
    /\ options = NoOptions
    /\ converter = Nil
    /\ ecsConfig = NoECSConfig
    /\ call \in { [container |-> [Container(S("app"), S("app:latest")) EXCEPT
                                    !.Resources = [Limits |-> l, Requests |-> r]]] :
                    l \in ResourceLists, r \in ResourceLists }
    /\ outs = [f \in {"convertResources"} |-> Nil]
    /\ MainIdle
    /\ threads = << >>
    /\ WatchIdle

\* c.convertResources(container, containerDef) on a fresh definition.
ConvertResourcesStep ==
    /\ ~IsNil(converter)
    /\ IsNil(outs["convertResources"])
    /\ outs' = [outs EXCEPT !["convertResources"] =
                  Ptr(convertResources(Deref(converter), call.container,
                        ECSContainerDefinition(call.container.Name,
                                               call.container.Image, TRUE)))]
    /\ UNCHANGED <<gen, pod, vres, options, converter, ecsConfig, call, mainVars, threads, watchVars>>

NextResources == NewConverterStep \/ ConvertResourcesStep

SpecResources == InitResources /\ [][NextResources]_vars

\* m is bytes divided by 1048576 with the fraction cut off.
IsTruncatedMiB(m, bytes) ==
    IF bytes >= 0
    THEN m >= 0 /\ m * MiB <= bytes /\ bytes < (m + 1) * MiB
    ELSE m <= 0 /\ m * MiB >= bytes /\ bytes > (m - 1) * MiB

\* The quantity under key in the list behind p, absent when p is nil or
\* has no such entry.
HasEntry(p, key) == ~IsNil(p) /\ key \in DOMAIN Deref(p)

\* C6: convertResources sets CPU to the milli value of the CPU limit (0
\* without one), Memory to the bytes of the memory limit divided by 1048576
\* and truncated (0 without one), and MemoryReservation to the bytes of the
\* memory request divided by 1048576 and truncated (0 without one), whatever
\* the limits are.
C6_ResourcesConverted ==
    Called("convertResources") =>
        LET d == Returned("convertResources")
            limits == call.container.Resources.Limits
            requests == call.container.Resources.Requests
        IN  /\ d.CPU = IF HasEntry(limits, "cpu")
                       THEN MilliValue(Deref(limits)["cpu"]) ELSE 0
            /\ IF HasEntry(limits, "memory")
               THEN IsTruncatedMiB(d.Memory, Value(Deref(limits)["memory"]))
               ELSE d.Memory = 0
            /\ IF HasEntry(requests, "memory")
               THEN IsTruncatedMiB(d.MemoryReservation,
                                   Value(Deref(requests)["memory"]))
               ELSE d.MemoryReservation = 0

\* A container with a memory request of 256Mi and no limits at all got a
\* reservation of 256 and no CPU or memory.
C6_Witness ==
    /\ Called("convertResources")
    /\ IsNil(call.container.Resources.Limits)
    /\ HasEntry(call.container.Resources.Requests, "memory")
    /\ Deref(call.container.Resources.Requests)["memory"] = Quantity(FALSE, 256 * MiB, 0)
    /\ Returned("convertResources").MemoryReservation = 256
    /\ Returned("convertResources").CPU = 0
    /\ Returned("convertResources").Memory = 0

---------------------------------------------------------------------------
(* The Parameter-Store paths of both generations *)

Prefixes == {Empty, <<"/", "myapp">>, <<"/", "pods">>, <<"/", "a", "/", "b">>}

InitPaths ==
    /\ gen \in {"pod", "xpod"}
    /\ pod = Pod(S("test-pod"), S("default"), Nil, PodSpec(<< >>, << >>, << >>))
    /\ vres = << >>
    /\ options \in { ConversionOptions(p, Empty, Nil, Empty, Empty, FALSE) :
                       p \in Prefixes }
    /\ converter = Nil
    /\ ecsConfig = NoECSConfig
    /\ call \in [namespace : {Empty, S("prod"), S("default")},
                 name : {S("my-secret"), S("app-config")},
                 key : {S("password"), S("api-key"), Empty}]
    /\ outs = [f \in {"getParameterStorePathForSecret",
                      "getParameterStorePathForConfigMap"} |-> Nil]
    /\ MainIdle
    /\ threads = << >>
    /\ WatchIdle

\* c.getParameterStorePathForSecret, with the namespace in the Pod-native
\* generation and without it in the options-only one.
SecretPathStep ==
    /\ ~IsNil(converter)
    /\ IsNil(outs["getParameterStorePathForSecret"])
    /\ outs' = [outs EXCEPT !["getParameterStorePathForSecret"] =
                  Ptr(IF gen = "xpod"
                      THEN XgetParameterStorePathForSecret(Deref(converter),
                               call.name, call.key)
                      ELSE getParameterStorePathForSecret(Deref(converter),
                               call.namespace, call.name, call.key))]
    /\ UNCHANGED <<gen, pod, vres, options, converter, ecsConfig, call, mainVars, threads, watchVars>>

ConfigMapPathStep ==
    /\ ~IsNil(converter)
    /\ IsNil(outs["getParameterStorePathForConfigMap"])
    /\ outs' = [outs EXCEPT !["getParameterStorePathForConfigMap"] =
                  Ptr(IF gen = "xpod"
                      THEN XgetParameterStorePathForConfigMap(Deref(converter),
                               call.name, call.key)
                      ELSE getParameterStorePathForConfigMap(Deref(converter),
                               call.namespace, call.name, call.key))]
    /\ UNCHANGED <<gen, pod, vres, options, converter, ecsConfig, call, mainVars, threads, watchVars>>

NextPaths == NewConverterStep \/ SecretPathStep \/ ConfigMapPathStep

SpecPaths == InitPaths /\ [][NextPaths]_vars

\* The segments of the path for an object of the given kind: the prefix of
\* the converter, the namespace in the Pod-native generation ("default" for
\* a blank one), the kind, the object's name and the key.
PathSegments(kind) ==
    <<Deref(converter).options.ParameterStorePrefix>>
      \o (IF gen = "pod"
          THEN <<IF call.namespace = Empty THEN S("default") ELSE call.namespace>>
          ELSE << >>)
      \o <<S(kind), call.name, call.key>>

---------------------------------------------------------------------------
(* Further properties of ConvertPod *)

\* A container of the spec has an environment entry with a field or a
\* resource-field reference.
HasFieldReference(spec) ==
    \E i \in 1..Len(spec.Containers) :
        \E j \in 1..Len(spec.Containers[i].Env) :
            LET env == spec.Containers[i].Env[j] IN
            /\ ~IsNil(env.ValueFrom)
            /\ IsNil(Deref(env.ValueFrom).SecretKeyRef)
            /\ IsNil(Deref(env.ValueFrom).ConfigMapKeyRef)
            /\ \/ ~IsNil(Deref(env.ValueFrom).FieldRef)
               \/ ~IsNil(Deref(env.ValueFrom).ResourceFieldRef)

\* The volume is one the converter has an ECS volume for.
IsSupportedVolume(volume) == ~IsNil(volume.HostPath) \/ ~IsNil(volume.EmptyDir)

HasUnsupportedVolume(spec) ==
    \E i \in 1..Len(spec.Volumes) : ~IsSupportedVolume(spec.Volumes[i])

\* C11: every ConvertPod call returns a task definition and a nil error, or
\* a nil task definition and an error, never both and never neither; without
\* SkipUnsupportedFeatures a field reference in any container, an init
\* container or an unsupported volume gives the nil task definition, whatever
\* was converted before.
C11_DefinitionOrError ==
    Called("ConvertPod") =>
        LET r == Returned("ConvertPod") IN
        /\ IsNil(r.taskDef) # IsNil(r.err)
        /\ (/\ ~options.SkipUnsupportedFeatures
            /\ \/ HasFieldReference(pod.Spec)
               \/ Len(pod.Spec.InitContainers) > 0
               \/ HasUnsupportedVolume(pod.Spec))
           => (IsNil(r.taskDef) /\ ~IsNil(r.err))

\* A Pod whose containers all convert and whose first volume converts, but
\* whose second volume does not, came back as an error without a task
\* definition.
C11_Witness ==
    /\ Called("ConvertPod")
    /\ ~options.SkipUnsupportedFeatures
    /\ ~HasFieldReference(pod.Spec)
    /\ Len(pod.Spec.InitContainers) = 0
    /\ Len(pod.Spec.Volumes) = 2
    /\ IsSupportedVolume(pod.Spec.Volumes[1])
    /\ ~IsSupportedVolume(pod.Spec.Volumes[2])
    /\ IsNil(Returned("ConvertPod").taskDef)
    /\ ~IsNil(Returned("ConvertPod").err)

\* C12: when ConvertPod succeeds, ContainerDefinitions has one element per
\* input container, the i-th with the name and the image of the i-th
\* container, and every element is essential.
C12_ContainerOrder ==
    (Called("ConvertPod") /\ IsNil(Returned("ConvertPod").err)) =>
        LET defs == Deref(Returned("ConvertPod").taskDef).ContainerDefinitions IN
        /\ Len(defs) = Len(pod.Spec.Containers)
        /\ \A i \in 1..Len(defs) :
             /\ defs[i].Name = pod.Spec.Containers[i].Name
             /\ defs[i].Image = pod.Spec.Containers[i].Image
             /\ defs[i].Essential

\* Two different containers were converted and came out in their order.
C12_Witness ==
    /\ Called("ConvertPod")
    /\ IsNil(Returned("ConvertPod").err)
    /\ Len(pod.Spec.Containers) = 2
    /\ pod.Spec.Containers[1].Name # pod.Spec.Containers[2].Name
    /\ Deref(Returned("ConvertPod").taskDef).ContainerDefinitions[1].Name
         = pod.Spec.Containers[1].Name
    /\ Deref(Returned("ConvertPod").taskDef).ContainerDefinitions[2].Name
         = pod.Spec.Containers[2].Name

---------------------------------------------------------------------------
(* convertEnvironment on one container *)

\* Entries of one container's environment.
MaxEnvLen == 3

\* Two literals, one entry per kind of reference, and an entry whose
\* valueFrom names no source at all.
EnvEntries ==
    { EnvVar(S("DATABASE_URL"), S("postgres://db"), Nil),
      EnvVar(S("DEBUG"), S("true"), Nil),
      EnvVar(S("API_KEY"), Empty,
             Ptr(EnvSource(Ptr(KeyRef(S("api-secret"), S("api-key"))), Nil, Nil, Nil))),
      EnvVar(S("CONFIG_VALUE"), Empty,
             Ptr(EnvSource(Nil, Ptr(KeyRef(S("app-config"), S("config-value"))),
                           Nil, Nil))),
      EnvVar(S("POD_NAME"), Empty, Ptr(EnvSource(Nil, Nil, Ptr("metadata.name"), Nil))),
      EnvVar(S("CPU_LIMIT"), Empty, Ptr(EnvSource(Nil, Nil, Nil, Ptr("limits.cpu")))),
      EnvVar(S("NO_SOURCE"), Empty, Ptr(EnvSource(Nil, Nil, Nil, Nil))) }

InitEnvironment ==
    /\ gen = "pod"
    /\ pod = Pod(S("test-pod"), S("default"), Nil, PodSpec(<< >>, << >>, << >>))
    /\ vres = << >>
    /\ options \in { ConversionOptions(Empty, Empty, Nil, Empty, Empty, skip) :
                       skip \in BOOLEAN }
    /\ converter = Nil
    /\ ecsConfig = NoECSConfig
    /\ call \in { [container |-> [Container(S("app"), S("app:latest")) EXCEPT
                                    !.Env = e]] :
                    e \in BoundedSeq(EnvEntries, MaxEnvLen) }
    /\ outs = [f \in {"convertEnvironment"} |-> Nil]
    /\ MainIdle
    /\ threads = << >>
    /\ WatchIdle

\* err := c.convertEnvironment(container, containerDef, namespace) on a
\* fresh definition; def is the definition as the call left it.
ConvertEnvironmentStep ==
    /\ ~IsNil(converter)
    /\ IsNil(outs["convertEnvironment"])
    /\ outs' = [outs EXCEPT !["convertEnvironment"] =
                  Ptr(convertEnvironment(Deref(converter), call.container,
                        ECSContainerDefinition(call.container.Name,
                                               call.container.Image, TRUE),
                        pod.Namespace))]
    /\ UNCHANGED <<gen, pod, vres, options, converter, ecsConfig, call, mainVars, threads, watchVars>>

NextEnvironment == NewConverterStep \/ ConvertEnvironmentStep

SpecEnvironment == InitEnvironment /\ [][NextEnvironment]_vars

IsLiteralEntry(env) == IsNil(env.ValueFrom)

IsSecretOrConfigMapEntry(env) ==
    /\ ~IsNil(env.ValueFrom)
    /\ \/ ~IsNil(Deref(env.ValueFrom).SecretKeyRef)
       \/ ~IsNil(Deref(env.ValueFrom).ConfigMapKeyRef)

IsFieldEntry(env) ==
    /\ ~IsNil(env.ValueFrom)
    /\ IsNil(Deref(env.ValueFrom).SecretKeyRef)
    /\ IsNil(Deref(env.ValueFrom).ConfigMapKeyRef)
    /\ \/ ~IsNil(Deref(env.ValueFrom).FieldRef)
       \/ ~IsNil(Deref(env.ValueFrom).ResourceFieldRef)

\* The entry is a literal or carries one of the four references.
IsSourcedEntry(env) ==
    IsLiteralEntry(env) \/ IsSecretOrConfigMapEntry(env) \/ IsFieldEntry(env)

NamesOf(list) == [i \in 1..Len(list) |-> list[i].Name]

\* What the claim says of one finished convertEnvironment call.
EnvironmentHandled ==
    LET r == Returned("convertEnvironment")
        entries == call.container.Env
        skip == options.SkipUnsupportedFeatures
    IN  IF ~skip /\ \E i \in 1..Len(entries) : IsFieldEntry(entries[i])
        THEN ~IsNil(r.err)
        ELSE /\ IsNil(r.err)
             /\ NamesOf(r.def.Environment)
                  = NamesOf(SelectSeq(entries, IsLiteralEntry))
             /\ \A i \in 1..Len(r.def.Environment) :
                  r.def.Environment[i].Value
                    = SelectSeq(entries, IsLiteralEntry)[i].Value
             /\ NamesOf(r.def.Secrets)
                  = NamesOf(SelectSeq(entries, IsSecretOrConfigMapEntry))
             /\ ~skip => Len(r.def.Environment) + Len(r.def.Secrets) = Len(entries)

\* C13 as stated: each entry takes exactly one branch (literal to
\* Environment, secret or config-map reference to Secrets, field reference
\* an error without SkipUnsupportedFeatures and dropped with it), so a
\* success without SkipUnsupportedFeatures has len(Environment) +
\* len(Secrets) entries, each list in input order.
C13_EveryEntryOneBranch ==
    Called("convertEnvironment") => EnvironmentHandled

\* C13 amended: the same, for environments whose entries are each a literal
\* or carry one of the four references.
C13_SourcedEntriesOneBranch ==
    (/\ Called("convertEnvironment")
     /\ \A i \in 1..Len(call.container.Env) : IsSourcedEntry(call.container.Env[i]))
    => EnvironmentHandled

\* A literal, a config-map reference and a secret reference were converted
\* without SkipUnsupportedFeatures: one environment pair, two secrets in
\* input order.
C13_Witness ==
    /\ Called("convertEnvironment")
    /\ ~options.SkipUnsupportedFeatures
    /\ NamesOf(call.container.Env) = << S("CONFIG_VALUE"), S("DEBUG"), S("API_KEY") >>
    /\ IsNil(Returned("convertEnvironment").err)
    /\ NamesOf(Returned("convertEnvironment").def.Environment) = << S("DEBUG") >>
    /\ NamesOf(Returned("convertEnvironment").def.Secrets)
         = << S("CONFIG_VALUE"), S("API_KEY") >>

---------------------------------------------------------------------------
(* convertVolumes on one list of volumes *)

\* Volumes of the list.
MaxVolumes == 3

\* The volumes of VolumeSet and a second host-path volume.
ConvertibleVolumeSet ==
    VolumeSet
      \cup { [Volume(S("logs")) EXCEPT
                !.HostPath = Ptr([Path |-> <<"/", "var", "/", "log">>])] }

InitVolumes ==
    /\ gen = "pod"
    /\ pod = Pod(S("test-pod"), S("default"), Nil, PodSpec(<< >>, << >>, << >>))
    /\ vres = << >>
    /\ options \in { ConversionOptions(Empty, Empty, Nil, Empty, Empty, skip) :
                       skip \in BOOLEAN }
    /\ converter = Nil
    /\ ecsConfig = NoECSConfig
    /\ call \in { [volumes |-> v] : v \in BoundedSeq(ConvertibleVolumeSet, MaxVolumes) }
    /\ outs = [f \in {"convertVolumes"} |-> Nil]
    /\ MainIdle
    /\ threads = << >>
    /\ WatchIdle

\* volumes, err := c.convertVolumes(podSpec.Volumes)
ConvertVolumesStep ==
    /\ ~IsNil(converter)
    /\ IsNil(outs["convertVolumes"])
    /\ outs' = [outs EXCEPT !["convertVolumes"] =
                  Ptr(convertVolumes(Deref(converter), call.volumes))]
    /\ UNCHANGED <<gen, pod, vres, options, converter, ecsConfig, call, mainVars, threads, watchVars>>

NextVolumes == NewConverterStep \/ ConvertVolumesStep

SpecVolumes == InitVolumes /\ [][NextVolumes]_vars

\* The ECS volume is the host volume the claim gives for the input volume.
IsHostVolumeOf(ecsVolume, volume) ==
    /\ ecsVolume.Name = volume.Name
    /\ ~IsNil(ecsVolume.Host)
    /\ Deref(ecsVolume.Host).SourcePath
         = IF ~IsNil(volume.HostPath) THEN Deref(volume.HostPath).Path ELSE Empty

\* C14: when convertVolumes returns volumes, they are the host-path and
\* empty-directory volumes of the input in input order, each under its own
\* name with a host entry: the host path as source path for a host-path
\* volume, an empty source path for an empty-directory volume.
C14_SupportedVolumesInOrder ==
    (Called("convertVolumes") /\ IsNil(Returned("convertVolumes").err)) =>
        LET out == Returned("convertVolumes").volumes
            supported == SelectSeq(call.volumes, IsSupportedVolume)
        IN  /\ Len(out) = Len(supported)
            /\ \A i \in 1..Len(out) : IsHostVolumeOf(out[i], supported[i])

\* An empty-directory volume, a secret volume and the host-path volume
\* /opt/data were converted with SkipUnsupportedFeatures: two ECS volumes in
\* that order, the second with the source path /opt/data.
C14_Witness ==
    /\ Called("convertVolumes")
    /\ IsNil(Returned("convertVolumes").err)
    /\ NamesOf(call.volumes) = << S("data"), S("creds"), S("host") >>
    /\ NamesOf(Returned("convertVolumes").volumes) = << S("data"), S("host") >>
    /\ Deref(Returned("convertVolumes").volumes[1].Host).SourcePath = Empty
    /\ Deref(Returned("convertVolumes").volumes[2].Host).SourcePath
         = <<"/", "opt", "/", "data">>

---------------------------------------------------------------------------
(* ConvertPod on Pods with volumes the converter has no ECS volume for *)

\* The mount points are the volume mounts, one for one.
IsMountPointsOf(mountPoints, mounts) ==
    /\ Len(mountPoints) = Len(mounts)
    /\ \A j \in 1..Len(mounts) :
         /\ mountPoints[j].SourceVolume = mounts[j].Name
         /\ mountPoints[j].ContainerPath = mounts[j].MountPath
         /\ mountPoints[j].ReadOnly = mounts[j].ReadOnly

\* C15: for a Pod with a secret, config-map or unrecognized volume,
\* ConvertPod fails without SkipUnsupportedFeatures; with it, the Volumes of
\* the task definition are the host-path and empty-directory volumes and
\* nothing else, and every container has one mount point per volume mount,
\* also for the mounts of a volume that was left out.
C15_UnsupportedVolumesOmitted ==
    (Called("ConvertPod") /\ HasUnsupportedVolume(pod.Spec)) =>
        LET r == Returned("ConvertPod") IN
        IF ~options.SkipUnsupportedFeatures
        THEN ~IsNil(r.err) /\ IsNil(r.taskDef)
        ELSE IsNil(r.err) =>
               LET taskDef == Deref(r.taskDef)
                   supported == SelectSeq(pod.Spec.Volumes, IsSupportedVolume)
               IN  /\ Len(taskDef.Volumes) = Len(supported)
                   /\ \A i \in 1..Len(supported) :
                        IsHostVolumeOf(taskDef.Volumes[i], supported[i])
                   /\ Len(taskDef.ContainerDefinitions) = Len(pod.Spec.Containers)
                   /\ \A i \in 1..Len(pod.Spec.Containers) :
                        IsMountPointsOf(taskDef.ContainerDefinitions[i].MountPoints,
                                        pod.Spec.Containers[i].VolumeMounts)

\* A Pod whose only volume is the secret volume "creds", mounted by its
\* container, was converted with SkipUnsupportedFeatures: no volume in the
\* task definition, and the mount point of "creds" still there.
C15_Witness ==
    /\ Called("ConvertPod")
    /\ options.SkipUnsupportedFeatures
    /\ NamesOf(pod.Spec.Volumes) = << S("creds") >>
    /\ Len(pod.Spec.Containers) = 1
    /\ IsNil(Returned("ConvertPod").err)
    /\ Deref(Returned("ConvertPod").taskDef).Volumes = << >>
    /\ \E j \in 1..Len(Deref(Returned("ConvertPod").taskDef).ContainerDefinitions[1].MountPoints) :
         Deref(Returned("ConvertPod").taskDef).ContainerDefinitions[1].MountPoints[j].SourceVolume
           = S("creds")

---------------------------------------------------------------------------
(* Two ConvertPod calls with the same arguments *)

Tags1 == [k \in {"env"} |-> S("prod")]

InitRepeat ==
    /\ gen = "pod"
    /\ pod \in ConvertPods
    /\ vres = << >>
    /\ options \in { ConversionOptions(Empty, Empty, Nil, Empty, Empty, skip) :
                       skip \in BOOLEAN }
    /\ converter = Nil
    /\ ecsConfig \in { ECSConfig(S("test-family"), << >>, tags) :
                         tags \in {<< >>, Tags1, Tags2} }
    /\ call = << >>
    /\ outs = [f \in {"ConvertPod", "ConvertPodAgain"} |-> Nil]
    /\ MainIdle
    /\ threads = << >>
    /\ WatchIdle

\* A second converter.ConvertPod(&pod, &pod.Spec, ecsConfig, ns) with the
\* arguments of the first; its range over the tag map picks its own order.
ConvertPodAgainStep ==
    /\ ~IsNil(converter)
    /\ ~IsNil(outs["ConvertPod"])
    /\ IsNil(outs["ConvertPodAgain"])
    /\ \E keyOrder \in KeyOrders(ecsConfig.Tags) :
         outs' = [outs EXCEPT !["ConvertPodAgain"] =
                    Ptr(ConvertPod(Deref(converter), Ptr(pod), pod.Spec, ecsConfig,
                                   pod.Namespace, keyOrder))]
    /\ UNCHANGED <<gen, pod, vres, options, converter, ecsConfig, call, mainVars, threads, watchVars>>

NextRepeat == NewConverterStep \/ ConvertPodStep \/ ConvertPodAgainStep

SpecRepeat == InitRepeat /\ [][NextRepeat]_vars

\* The tag list holds one pair per key of the map, with the map's value.
IsTagListOf(tags, m) ==
    /\ Len(tags) = Cardinality(DOMAIN m)
    /\ \A k \in DOMAIN m : \E i \in 1..Len(tags) : tags[i] = [Key |-> k, Value |-> m[k]]

\* C16 as stated: two ConvertPod calls with equal Pod, ecsConfig, namespace
\* and options return equal results, the order of Tags included; Tags holds
\* one pair per key of the tag map and is absent when the map is empty.
C16_ConvertPodDeterministic ==
    (Called("ConvertPod") /\ Called("ConvertPodAgain")) =>
        /\ Returned("ConvertPod") = Returned("ConvertPodAgain")
        /\ IsNil(Returned("ConvertPod").err) =>
             IsTagListOf(Deref(Returned("ConvertPod").taskDef).Tags, ecsConfig.Tags)

---------------------------------------------------------------------------
(* Further properties of the rule-based validatePod *)

\* None of the six volume sources the validator and the converter know.
IsUnrecognizedVolume(volume) ==
    /\ IsNil(volume.HostPath) /\ IsNil(volume.EmptyDir)
    /\ IsNil(volume.Secret) /\ IsNil(volume.ConfigMap)
    /\ IsNil(volume.PersistentVolumeClaim) /\ IsNil(volume.NFS)

\* C17 as stated: the rule-based validator records at least one error and
\* sets CanConvert = false for a Pod with a volume whose source is a
\* persistent-volume claim, NFS, or none of the six known sources.
C17_UnsupportedVolumeIsError ==
    \A sw \in BOOLEAN :
        (/\ gen = "rule" /\ Done(sw)
         /\ \E i \in 1..Len(pod.Spec.Volumes) :
              \/ ~IsNil(pod.Spec.Volumes[i].PersistentVolumeClaim)
              \/ ~IsNil(pod.Spec.Volumes[i].NFS)
              \/ IsUnrecognizedVolume(pod.Spec.Volumes[i]))
        => (Len(Result(sw).Errors) >= 1 /\ ~Result(sw).CanConvert)

\* How many indices of the list satisfy the test.
CountOf(list, Test(_)) == Len(SelectSeq(list, Test))

HasNoImage(container) == container.Image = Empty

IsPrivileged(container) ==
    /\ ~IsNil(container.SecurityContext)
    /\ ~IsNil(Deref(container.SecurityContext).Privileged)
    /\ Deref(Deref(container.SecurityContext).Privileged)

IsClaimVolume(volume) == ~IsNil(volume.PersistentVolumeClaim)

IsNFSVolume(volume) == ~IsNil(volume.NFS)

HostFlagCount(spec) ==
    (IF spec.HostNetwork THEN 1 ELSE 0) + (IF spec.HostPID THEN 1 ELSE 0)
      + (IF spec.HostIPC THEN 1 ELSE 0)

\* 1 for the error of a container, 2 for the error of a volume, 3 for the
\* error of a host flag, told by how the message starts.
ErrorRank(msg) ==
    IF Head(msg) = "Container '" THEN 1
    ELSE IF Head(msg) = "Volume '" THEN 2
    ELSE 3

\* C18: the rule-based validatePod goes on after a finding: len(Errors) is
\* the number of containers without image plus the number of privileged
\* containers plus the number of PVC volumes plus the number of NFS volumes
\* plus the number of host flags set, and the errors of the containers come
\* first, then those of the volumes, then those of the host flags.
C18_AllFindingsCounted ==
    \A sw \in BOOLEAN :
        (gen = "rule" /\ Done(sw)) =>
            LET errors == Result(sw).Errors
                spec == pod.Spec
                nContainers == CountOf(spec.Containers, HasNoImage)
                                 + CountOf(spec.Containers, IsPrivileged)
                nVolumes == CountOf(spec.Volumes, IsClaimVolume)
                              + CountOf(spec.Volumes, IsNFSVolume)
            IN  /\ Len(errors) = nContainers + nVolumes + HostFlagCount(spec)
                /\ \A i \in 1..Len(errors) :
                     ErrorRank(errors[i])
                       = IF i <= nContainers THEN 1
                         ELSE IF i <= nContainers + nVolumes THEN 2
                         ELSE 3

\* A Pod with a container without image, an NFS volume and all three host
\* flags was validated: five errors.
C18_Witness ==
    /\ gen = "rule" /\ Done(FALSE)
    /\ CountOf(pod.Spec.Containers, HasNoImage) = 1
    /\ CountOf(pod.Spec.Volumes, IsNFSVolume) = 1
    /\ HostFlagCount(pod.Spec) = 3
    /\ Len(Result(FALSE).Errors) = 5
    /\ ErrorRank(Result(FALSE).Errors[1]) = 1
    /\ ErrorRank(Result(FALSE).Errors[2]) = 2

---------------------------------------------------------------------------
(* The check tool's main function: the loop over the Pods, the output and
   the exit status *)

\* Mutant of countResult: a Pod counts as failed only when it has errors.
countResultByErrors(s, result) ==
    IF Len(result.Errors) = 0
    THEN [s EXCEPT !.Results = Append(@, result), !.ConvertiblePods = @ + 1]
    ELSE [s EXCEPT !.Results = Append(@, result), !.FailedPods = @ + 1]

\* The body of the loop after validatePod: the result is appended and
\* counted.
countResult(s, result) ==
    IF result.CanConvert
    THEN [s EXCEPT !.Results = Append(@, result), !.ConvertiblePods = @ + 1]
    ELSE [s EXCEPT !.Results = Append(@, result), !.FailedPods = @ + 1]

\* The status the process ends with: os.Exit(1), or the return from main.
exitStatusOf(s) == IF s.FailedPods > 0 THEN 1 ELSE 0

\* Pods of the list.
MaxPods == 3

\* A Pod that converts, one with a container without image, one with an
\* init container, one with warnings and a secret volume.
ListedPods ==
    { Pod(S("web"), S("default"), Nil, PodSpec(<<AppContainer>>, << >>, << >>)),
      Pod(S("broken"), S("default"), Nil, PodSpec(<<NoImageContainer>>, << >>, << >>)),
      Pod(S("job"), S("batch"), Nil, PodSpec(<<AppContainer>>, <<InitContainer>>, << >>)),
      Pod(S("api"), S("default"), Nil,
          PodSpec(<<EnvContainer>>, << >>,
                  << [Volume(S("creds")) EXCEPT
                        !.Secret = Ptr([SecretName |-> S("my-secret")])] >>)) }

\* main after the Pods were listed and the summary was created.
InitMain ==
    /\ gen \in {"rule", "converter"}
    /\ pod = Pod(Empty, Empty, Nil, PodSpec(<< >>, << >>, << >>))
    /\ vres = << >>
    /\ options = NoOptions
    /\ converter = Nil
    /\ ecsConfig = NoECSConfig
    /\ call \in [skipWarnings : BOOLEAN]
    /\ outs = << >>
    /\ pods \in BoundedSeq(ListedPods, MaxPods)
    /\ pc = "loop"
    /\ idx = 1
    /\ summary = NewSummary(pods)
    /\ exitStatus = Nil
    /\ threads = << >>
    /\ WatchIdle

\* One iteration of the loop over pods.Items.
ValidateNextPod ==
    /\ pc = "loop"
    /\ idx <= Len(pods)
    /\ pod' = pods[idx]
    /\ summary' = countResult(summary, validatePod(gen, pods[idx], call.skipWarnings))
    /\ idx' = idx + 1
    /\ UNCHANGED <<gen, vres, options, converter, ecsConfig, call, outs, pods, pc,
                   exitStatus, threads, watchVars>>

\* The loop is over: outputJSON or outputText, which change nothing here.
Output ==
    /\ pc = "loop"
    /\ idx > Len(pods)
    /\ pc' = "exit"
    /\ UNCHANGED <<gen, pod, vres, options, converter, ecsConfig, call, outs, pods,
                   idx, summary, exitStatus, threads, watchVars>>

\* if summary.FailedPods > 0 { os.Exit(1) }, else main returns.
Exit ==
    /\ pc = "exit"
    /\ exitStatus' = Ptr(exitStatusOf(summary))
    /\ pc' = "exited"
    /\ UNCHANGED <<gen, pod, vres, options, converter, ecsConfig, call, outs, pods,
                   idx, summary, threads, watchVars>>

NextMain == ValidateNextPod \/ Output \/ Exit

SpecMain == InitMain /\ [][NextMain]_vars

IsFailedResult(result) == ~result.CanConvert

---------------------------------------------------------------------------
(* Concurrent callers: goroutines that share one Converter, each running
   ConvertPod or validatePod on its own Pod.  A ConvertPod call is split at
   the points where it reads the Converter, so that the steps of different
   calls interleave; the Converter and the map behind DefaultLogOptions are
   the one object all calls hold a reference to. *)

MaxThreads == 2

Threads == 1..MaxThreads

\* Mutant of receiverAfterConvertContainer: the container's name is written
\* into the shared log options as the stream prefix.
receiverWithStreamPrefix(c, container) ==
    [c EXCEPT !.options.DefaultLogOptions =
        Ptr([k \in DOMAIN Deref(@) \cup {"awslogs-stream-prefix"} |->
               IF k = "awslogs-stream-prefix" THEN container.Name
               ELSE Deref(@)[k]])]

\* The Converter after convertContainer has run on the container: the
\* function reads c.options and assigns to no field of c, nor to the map
\* behind DefaultLogOptions that it hands to the log configuration.
receiverAfterConvertContainer(c, container) == c

\* The state of a call that has not started.
NewCall(kind, p) ==
    [kind |-> kind, pod |-> p, pc |-> "start", taskDef |-> Nil,
     defs |-> << >>, i |-> 1, result |-> Nil]

InitThreads ==
    /\ gen \in {"rule", "converter"}
    /\ pod = Pod(Empty, Empty, Nil, PodSpec(<< >>, << >>, << >>))
    /\ vres = << >>
    /\ options \in { ConversionOptions(Empty, Empty, Nil, Empty, Empty, skip) :
                       skip \in BOOLEAN }
    /\ converter = Nil
    /\ ecsConfig = ECSConfig(S("test-family"), << >>, Tags1)
    /\ call = [skipWarnings |-> FALSE]
    /\ outs = << >>
    /\ MainIdle
    /\ threads \in { t \in [Threads -> { NewCall(kind, p) :
                                         kind \in {"ConvertPod", "validatePod"},
                                         p \in ListedPods }] :
                       \A a, b \in Threads : a # b => t[a].pod # t[b].pod }
    /\ WatchIdle

\* ConvertPod, up to the call of convertContainers: the task definition
\* with the fields taken from ecsConfig and the Converter's defaults.
BeginConvertPod(t) ==
    /\ ~IsNil(converter)
    /\ threads[t].kind = "ConvertPod"
    /\ threads[t].pc = "start"
    /\ LET c == Deref(converter)
           p == threads[t].pod
       IN  threads' = [threads EXCEPT
             ![t].taskDef =
                Ptr([Family |-> ecsConfig.Family,
                     TaskRoleArn |-> getTaskRoleArn(c, ecsConfig),
                     ExecutionRoleArn |-> getExecutionRoleArn(c, ecsConfig),
                     NetworkMode |-> getNetworkMode(c, ecsConfig),
                     RequiresCompatibilities |->
                         getRequiresCompatibilities(c, ecsConfig, Ptr(p)),
                     CPU |-> ecsConfig.CPU, Memory |-> ecsConfig.Memory,
                     ContainerDefinitions |-> << >>, Volumes |-> << >>,
                     Tags |-> << >>]),
             ![t].pc = "containers"]
    /\ UNCHANGED <<gen, pod, vres, options, converter, ecsConfig, call, outs, mainVars, watchVars>>

\* One iteration of the loop of convertContainers.
ConvertNextContainer(t) ==
    /\ ~IsNil(converter)
    /\ threads[t].pc = "containers"
    /\ threads[t].i <= Len(threads[t].pod.Spec.Containers)
    /\ LET c == Deref(converter)
           p == threads[t].pod
           container == p.Spec.Containers[threads[t].i]
           r == convertContainer(c, container, p.Namespace, TRUE)
       IN  /\ threads' =
                IF ~IsNil(r.err)
                THEN [threads EXCEPT
                        ![t].result =
                           Ptr([taskDef |-> Nil,
                                err |-> Errorf(
                                  <<"failed to convert containers", ": ", "%s">>,
                                  <<Deref(Errorf(
                                      <<"failed to convert container", " ", "%s",
                                        ": ", "%s">>,
                                      <<container.Name, Deref(r.err)>>))>>)]),
                        ![t].pc = "done"]
                ELSE [threads EXCEPT
                        ![t].defs = Append(@, Deref(r.def)),
                        ![t].i = @ + 1]
           /\ converter' = Ptr(receiverAfterConvertContainer(c, container))
    /\ UNCHANGED <<gen, pod, vres, options, ecsConfig, call, outs, mainVars, watchVars>>

\* convertContainers has returned: the definitions are stored and the init
\* containers are looked at.
CheckInitContainers(t) ==
    /\ ~IsNil(converter)
    /\ threads[t].pc = "containers"
    /\ threads[t].i > Len(threads[t].pod.Spec.Containers)
    /\ LET c == Deref(converter)
           p == threads[t].pod
       IN  threads' =
             IF Len(p.Spec.InitContainers) > 0 /\ ~c.options.SkipUnsupportedFeatures
             THEN [threads EXCEPT
                     ![t].result =
                        Ptr([taskDef |-> Nil,
                             err |-> Errorf(<<"init containers",
                                              " are not supported in ECS">>, << >>)]),
                     ![t].pc = "done"]
             ELSE [threads EXCEPT
                     ![t].taskDef =
                        Ptr([Deref(@) EXCEPT
                               !.ContainerDefinitions = threads[t].defs]),
                     ![t].pc = "volumes"]
    /\ UNCHANGED <<gen, pod, vres, options, converter, ecsConfig, call, outs, mainVars, watchVars>>

\* The call of convertVolumes and the assignment of its result.
ConvertPodVolumes(t) ==
    /\ ~IsNil(converter)
    /\ threads[t].pc = "volumes"
    /\ LET vs == convertVolumes(Deref(converter), threads[t].pod.Spec.Volumes)
       IN  threads' =
             IF ~IsNil(vs.err)
             THEN [threads EXCEPT
                     ![t].result =
                        Ptr([taskDef |-> Nil,
                             err |-> Errorf(
                               <<"failed to convert volumes", ": ", "%s">>,
                               <<Deref(vs.err)>>)]),
                     ![t].pc = "done"]
             ELSE [threads EXCEPT
                     ![t].taskDef = Ptr([Deref(@) EXCEPT !.Volumes = vs.volumes]),
                     ![t].pc = "tags"]
    /\ UNCHANGED <<gen, pod, vres, options, converter, ecsConfig, call, outs, mainVars, watchVars>>

\* The tags, and the return of the task definition.
ConvertPodTags(t) ==
    /\ threads[t].pc = "tags"
    /\ \E keyOrder \in KeyOrders(ecsConfig.Tags) :
         threads' = [threads EXCEPT
           ![t].result =
              Ptr([taskDef |->
                     Ptr([Deref(threads[t].taskDef) EXCEPT
                            !.Tags = convertTags(ecsConfig.Tags, keyOrder)]),
                   err |-> Nil]),
           ![t].pc = "done"]
    /\ UNCHANGED <<gen, pod, vres, options, converter, ecsConfig, call, outs, mainVars, watchVars>>

\* validatePod(&pod, skipWarnings): it works on its argument and on values
\* it creates itself, so it is one step.
ValidatePodCall(t) ==
    /\ threads[t].kind = "validatePod"
    /\ threads[t].pc = "start"
    /\ threads' = [threads EXCEPT
         ![t].result = Ptr(validatePod(gen, threads[t].pod, call.skipWarnings)),
         ![t].pc = "done"]
    /\ UNCHANGED <<gen, pod, vres, options, converter, ecsConfig, call, outs, mainVars, watchVars>>

ThreadStep(t) ==
    \/ BeginConvertPod(t)
    \/ ConvertNextContainer(t)
    \/ CheckInitContainers(t)
    \/ ConvertPodVolumes(t)
    \/ ConvertPodTags(t)
    \/ ValidatePodCall(t)

NextThreads == NewConverterStep \/ \E t \in Threads : ThreadStep(t)

SpecThreads == InitThreads /\ [][NextThreads]_vars

\* What the call of thread t returns when it runs alone on the Converter as
\* constructed.
AloneResult(t) ==
    LET p == threads[t].pod
    IN  IF threads[t].kind = "ConvertPod"
        THEN ConvertPod(NewConverter(options), Ptr(p), p.Spec, ecsConfig,
                        p.Namespace,
                        CHOOSE o \in KeyOrders(ecsConfig.Tags) : TRUE)
        ELSE validatePod(gen, p, call.skipWarnings)

---------------------------------------------------------------------------
(* A caller that constructs converters and converts Pods, any number of
   times, and what it finds in its own values afterwards *)

MaxCalls == 3

CustomLogOptions == [k \in {"tag"} |-> S("app")]

OptionSet ==
    { ConversionOptions(prefix, logDriver, logOptions, Empty, Empty, skip) :
        prefix \in {Empty, <<"/", "custom">>},
        logDriver \in {Empty, S("fluentd")},
        logOptions \in {Nil, Ptr(<< >>), Ptr(CustomLogOptions)},
        skip \in BOOLEAN }

\* Mutant of callerOptionsAfterNewConverter: the defaults are written into
\* the caller's value, as with a pointer parameter.
callerOptionsBackFilled(opts) == NewConverter(opts).options

\* The caller's ConversionOptions after NewConverter(options): the
\* parameter is a copy of the struct, the assignments of the defaults go to
\* the copy, and the caller's map is replaced in the copy when it is nil and
\* never written to.
callerOptionsAfterNewConverter(opts) == opts

\* The caller's Pod spec and ECSConfig after ConvertPod: both are read
\* through their pointers and no field of either is assigned.
argumentsAfterConvertPod(podSpec, cfg) == [podSpec |-> podSpec, ecsConfig |-> cfg]

InitOptions ==
    /\ gen \in {"pod", "xpod"}
    /\ pod \in ListedPods
    /\ vres = << >>
    /\ options \in OptionSet
    /\ converter = Nil
    /\ ecsConfig = ECSConfig(S("test-family"), << >>, Tags1)
    /\ call = [before |-> [options |-> options, pod |-> pod, ecsConfig |-> ecsConfig],
               n |-> 0]
    /\ outs = [f \in {"ConvertPod"} |-> Nil]
    /\ MainIdle
    /\ threads = << >>
    /\ WatchIdle

\* converter := ecs.NewConverter(options); a converter made earlier is
\* replaced.
NewConverterCall ==
    /\ call.n < MaxCalls
    /\ converter' = Ptr(IF gen = "xpod" THEN XNewConverter(options)
                        ELSE NewConverter(options))
    /\ options' = callerOptionsAfterNewConverter(options)
    /\ call' = [call EXCEPT !.n = @ + 1]
    /\ UNCHANGED <<gen, pod, vres, ecsConfig, outs, mainVars, threads, watchVars>>

\* taskDef, err := converter.ConvertPod(&pod, &pod.Spec, ecsConfig, ns)
ConvertPodCall ==
    /\ gen = "pod"
    /\ ~IsNil(converter)
    /\ call.n < MaxCalls
    /\ \E keyOrder \in KeyOrders(ecsConfig.Tags) :
         outs' = [outs EXCEPT !["ConvertPod"] =
                    Ptr(ConvertPod(Deref(converter), Ptr(pod), pod.Spec, ecsConfig,
                                   pod.Namespace, keyOrder))]
    /\ LET after == argumentsAfterConvertPod(pod.Spec, ecsConfig)
       IN  /\ pod' = [pod EXCEPT !.Spec = after.podSpec]
           /\ ecsConfig' = after.ecsConfig
    /\ call' = [call EXCEPT !.n = @ + 1]
    /\ UNCHANGED <<gen, vres, options, converter, mainVars, threads, watchVars>>

NextOptions == NewConverterCall \/ ConvertPodCall

SpecOptions == InitOptions /\ [][NextOptions]_vars

---------------------------------------------------------------------------
(* validatePod on Pods with init containers, well-formed and not *)

\* An init container that would be two errors were it a container.
BadInitContainer ==
    [Container(S("init-bad"), Empty) EXCEPT
        !.SecurityContext = Ptr(SecurityContext(Ptr(TRUE), Nil))]

InitContainerPods ==
    { Pod(S("test-pod-init"), S("default"), Nil,
          WithSettings(PodSpec(cs, is, vs), s)) :
        cs \in BoundedSeq({AppContainer, NoImageContainer}, 1),
        is \in BoundedSeq({InitContainer, BadInitContainer}, MaxPodItems),
        vs \in {<< >>,
                << [Volume(S("creds")) EXCEPT
                      !.Secret = Ptr([SecretName |-> S("my-secret")])] >>},
        s \in PodLevelSettings }

InitValidateInit ==
    /\ gen \in {"rule", "converter"}
    /\ pod \in InitContainerPods
    /\ vres = [sw \in BOOLEAN |-> Nil]
    /\ options = NoOptions
    /\ converter = Nil
    /\ ecsConfig = NoECSConfig
    /\ call = << >>
    /\ outs = << >>
    /\ MainIdle
    /\ threads = << >>
    /\ WatchIdle

SpecValidateInit == InitValidateInit /\ [][NextValidate]_vars

IsInitContainerNote(msg) == msg # << >> /\ Head(msg) = "Pod has "

\* C23: in the rule-based validator a Pod with init containers is not
\* convertible and has exactly one UnsupportedInfo entry about them, while
\* Errors holds only what the containers, the volumes and the host flags
\* put there: with no such finding it is empty.
C23_InitContainersNoteOnly ==
    \A sw \in BOOLEAN :
        (gen = "rule" /\ Done(sw) /\ Len(pod.Spec.InitContainers) > 0) =>
            /\ ~Result(sw).CanConvert
            /\ CountOf(Result(sw).UnsupportedInfo, IsInitContainerNote) = 1
            /\ Len(Result(sw).Errors)
                 = CountOf(pod.Spec.Containers, HasNoImage)
                     + CountOf(pod.Spec.Containers, IsPrivileged)
                     + CountOf(pod.Spec.Volumes, IsClaimVolume)
                     + CountOf(pod.Spec.Volumes, IsNFSVolume)
                     + HostFlagCount(pod.Spec)

\* A Pod whose only finding is its init containers, one of them without an
\* image and privileged: no errors, one note, not convertible.
C23_Witness ==
    /\ gen = "rule"
    /\ Done(FALSE)
    /\ pod.Spec.InitContainers = <<InitContainer, BadInitContainer>>
    /\ pod.Spec.Containers = <<AppContainer>>
    /\ pod.Spec.Volumes = << >>
    /\ Result(FALSE).Errors = << >>
    /\ Len(Result(FALSE).UnsupportedInfo) = 1
    /\ ~Result(FALSE).CanConvert


---------------------------------------------------------------------------
(* Further properties of validatePod *)

\* C24: the converter-backed validatePod converts with unsupported features
\* skipped, so its conversion never fails: every result is convertible with
\* no errors and no notes on unsupported features, whatever the Pod holds.
C24_ConverterBackedAlwaysConvertible ==
    \A sw \in BOOLEAN :
        (gen = "converter" /\ Done(sw)) =>
            /\ Result(sw).CanConvert
            /\ Result(sw).Errors = << >>
            /\ Result(sw).UnsupportedInfo = << >>

\* A Pod on the host network with field references and a volume of unknown
\* source went through the converter-backed validatePod: convertible, and
\* the host network is a warning.
C24_Witness ==
    /\ gen = "converter"
    /\ Done(FALSE)
    /\ pod.Spec.HostNetwork
    /\ pod.Spec.Containers = <<FieldRefContainer>>
    /\ pod.Spec.Volumes = <<Volume(S("other"))>>
    /\ Result(FALSE).CanConvert
    /\ Result(FALSE).Warnings # << >>


---------------------------------------------------------------------------
(* Failures of ConvertPod *)

\* C25: a converter that skips unsupported features converts every Pod:
\* ConvertPod returns a task definition and a nil error whatever the
\* containers, init containers, environment sources and volume sources.
C25_SkipNeverFails ==
    (Called("ConvertPod") /\ options.SkipUnsupportedFeatures) =>
        /\ IsNil(Returned("ConvertPod").err)
        /\ ~IsNil(Returned("ConvertPod").taskDef)

\* A Pod with field references, and an init container was converted by a
\* converter that skips: the definition has the container.
C25_Witness ==
    /\ Called("ConvertPod")
    /\ options.SkipUnsupportedFeatures
    /\ pod.Spec.Containers = <<FieldRefContainer>>
    /\ pod.Spec.InitContainers = <<InitContainer>>
    /\ ~IsNil(Returned("ConvertPod").taskDef)
    /\ Len(Deref(Returned("ConvertPod").taskDef).ContainerDefinitions) = 1


\* A second container with field references, under another name.
SidecarFieldRefContainer ==
    [Container(S("sidecar"), S("sidecar:latest")) EXCEPT
        !.Env = << EnvVar(S("NODE_NAME"), Empty,
                          Ptr(EnvSource(Nil, Nil, Ptr("spec.nodeName"), Nil))) >>]

FailingPods ==
    { Pod(S("test-pod"), S("default"), Nil, PodSpec(cs, is, vs)) :
        cs \in BoundedSeq({AppContainer, FieldRefContainer, SidecarFieldRefContainer},
                          MaxPodItems),
        is \in {<< >>, <<InitContainer>>},
        vs \in BoundedSeq(
                 { [Volume(S("host")) EXCEPT
                      !.HostPath = Ptr([Path |-> <<"/", "opt", "/", "data">>])],
                   [Volume(S("creds")) EXCEPT
                      !.Secret = Ptr([SecretName |-> S("my-secret")])],
                   Volume(S("other")) },
                 MaxPodItems) }

InitFailures ==
    /\ gen = "pod"
    /\ pod \in FailingPods
    /\ vres = << >>
    /\ options \in { ConversionOptions(Empty, Empty, Nil, Empty, Empty, skip) :
                       skip \in BOOLEAN }
    /\ converter = Nil
    /\ ecsConfig = ECSConfig(S("test-family"), << >>, Tags1)
    /\ call = << >>
    /\ outs = [f \in {"ConvertPod"} |-> Nil]
    /\ MainIdle
    /\ threads = << >>
    /\ WatchIdle

SpecFailures == InitFailures /\ [][NextConvert]_vars

ContainerHasFieldReference(container) ==
    \E j \in 1..Len(container.Env) :
        /\ ~IsNil(container.Env[j].ValueFrom)
        /\ IsNil(Deref(container.Env[j].ValueFrom).SecretKeyRef)
        /\ IsNil(Deref(container.Env[j].ValueFrom).ConfigMapKeyRef)
        /\ \/ ~IsNil(Deref(container.Env[j].ValueFrom).FieldRef)
           \/ ~IsNil(Deref(container.Env[j].ValueFrom).ResourceFieldRef)

IsUnsupportedVolume(volume) == ~IsSupportedVolume(volume)

\* The error text of the first volume without an ECS equivalent.
VolumeErrorText(volume) ==
    IF ~IsNil(volume.Secret) \/ ~IsNil(volume.ConfigMap)
    THEN <<"secret/configmap volumes",
           " are not supported in ECS, use Parameter Store instead">>
    ELSE <<"unsupported volume type", " for volume ">> \o volume.Name

\* C26: without SkipUnsupportedFeatures ConvertPod reports the first failure
\* in the order containers, init containers, volumes: a field reference
\* gives the field-reference error wrapped with the name of the first
\* container that has one, whatever the init containers and volumes; else
\* init containers give the init-container error, whatever the volumes; else
\* the first unsupported volume gives its error; else there is no error.
C26_FirstFailureReported ==
    (Called("ConvertPod") /\ ~options.SkipUnsupportedFeatures) =>
        LET offending == SelectSeq(pod.Spec.Containers, ContainerHasFieldReference)
            unsupported == SelectSeq(pod.Spec.Volumes, IsUnsupportedVolume)
            err == Returned("ConvertPod").err
        IN  IF offending # << >>
            THEN err = Ptr(<<"failed to convert containers", ": ",
                             "failed to convert container", " ">>
                           \o Head(offending).Name
                           \o <<": ", "failed to convert environment", ": ",
                                "field references", " are not supported in ECS">>)
            ELSE IF pod.Spec.InitContainers # << >>
            THEN err = Ptr(<<"init containers", " are not supported in ECS">>)
            ELSE IF unsupported # << >>
            THEN err = Ptr(<<"failed to convert volumes", ": ">>
                           \o VolumeErrorText(Head(unsupported)))
            ELSE IsNil(err)

\* Two containers with field references, an init container and an
\* unsupported volume: the error names the first of the two containers.
C26_Witness ==
    /\ Called("ConvertPod")
    /\ ~options.SkipUnsupportedFeatures
    /\ pod.Spec.Containers = <<SidecarFieldRefContainer, FieldRefContainer>>
    /\ pod.Spec.InitContainers = <<InitContainer>>
    /\ pod.Spec.Volumes = <<Volume(S("other"))>>
    /\ Returned("ConvertPod").err
         = Ptr(<<"failed to convert containers", ": ",
                 "failed to convert container", " ", "sidecar", ": ",
                 "failed to convert environment", ": ",
                 "field references", " are not supported in ECS">>)


---------------------------------------------------------------------------
(* The rule-based validator and a converter that skips nothing, on the same
   Pod *)

InitAgree ==
    /\ gen = "rule"
    /\ pod \in ConvertPods
    /\ vres = [sw \in BOOLEAN |-> Nil]
    /\ options = ConversionOptions(Empty, Empty, Nil, Empty, Empty, FALSE)
    /\ converter = Nil
    /\ ecsConfig = ECSConfig(S("test-family"), << >>, Tags1)
    /\ call = << >>
    /\ outs = [f \in {"ConvertPod"} |-> Nil]
    /\ MainIdle
    /\ threads = << >>
    /\ WatchIdle

NextAgree == NextValidate \/ NewConverterStep \/ ConvertPodStep

SpecAgree == InitAgree /\ [][NextAgree]_vars

\* C27 as stated: a Pod that ConvertPod refuses without
\* SkipUnsupportedFeatures has an entry in Errors or in UnsupportedInfo of
\* the rule-based validatePod.
C27_ValidatorCoversConverter ==
    \A sw \in BOOLEAN :
        (Done(sw) /\ Called("ConvertPod") /\ ~IsNil(Returned("ConvertPod").err))
            => (Result(sw).Errors # << >> \/ Result(sw).UnsupportedInfo # << >>)

\* What holds of the code: the same, for Pods all of whose volumes have a
\* source the validator knows.
C27_CoversRecognizedVolumes ==
    \A sw \in BOOLEAN :
        (/\ Done(sw) /\ Called("ConvertPod") /\ ~IsNil(Returned("ConvertPod").err)
         /\ \A i \in 1..Len(pod.Spec.Volumes) : ~IsUnrecognizedVolume(pod.Spec.Volumes[i]))
            => (Result(sw).Errors # << >> \/ Result(sw).UnsupportedInfo # << >>)


---------------------------------------------------------------------------
(* What decides CanConvert in the rule-based validator *)

\* C28: a result of the rule-based validatePod is not convertible exactly
\* when it has an error or the Pod has init containers; the notes on
\* secret/config-map volumes and field references and the warnings have no
\* part in it; and a result that is not convertible has an entry in Errors
\* or in UnsupportedInfo.
C28_CanConvertDecidedByErrors ==
    \A sw \in BOOLEAN :
        (gen = "rule" /\ Done(sw)) =>
            /\ ~Result(sw).CanConvert
                 <=> (Result(sw).Errors # << >> \/ pod.Spec.InitContainers # << >>)
            /\ ~Result(sw).CanConvert
                 => (Result(sw).Errors # << >> \/ Result(sw).UnsupportedInfo # << >>)

\* A Pod with field references and a secret volume, and nothing else: notes
\* and warnings, and convertible.
C28_Witness ==
    /\ gen = "rule"
    /\ Done(FALSE)
    /\ pod.Spec.Containers = <<FieldRefContainer>>
    /\ pod.Spec.InitContainers = << >>
    /\ Len(pod.Spec.Volumes) = 1
    /\ ~IsNil(pod.Spec.Volumes[1].Secret)
    /\ Len(Result(FALSE).UnsupportedInfo) = 3
    /\ Result(FALSE).Warnings # << >>
    /\ Result(FALSE).Errors = << >>
    /\ Result(FALSE).CanConvert


---------------------------------------------------------------------------
(* categorizeConversionError on error texts *)

MaxTextLen == 3

\* The pieces the converter's error texts are made of, and one of no
\* converter.
TextTokens ==
    {"init containers", "secret/configmap volumes", "field references",
     "unsupported volume type", "failed to convert containers",
     " are not supported in ECS", "some other conversion error"}

InitCategorize ==
    /\ gen = "converter"
    /\ pod = Pod(Empty, Empty, Nil, PodSpec(<< >>, << >>, << >>))
    /\ vres = << >>
    /\ options = NoOptions
    /\ converter = Nil
    /\ ecsConfig = NoECSConfig
    /\ call \in [errStr : BoundedSeq(TextTokens, MaxTextLen)]
    /\ outs = [f \in {"categorizeConversionError"} |-> Nil]
    /\ MainIdle
    /\ threads = << >>
    /\ WatchIdle

\* categorizeConversionError(err, &result) on a result with empty lists.
CategorizeStep ==
    /\ IsNil(outs["categorizeConversionError"])
    /\ outs' = [outs EXCEPT !["categorizeConversionError"] =
                  Ptr(categorizeConversionError(call.errStr,
                        [ValidationResult(Empty, Empty) EXCEPT !.CanConvert = FALSE]))]
    /\ UNCHANGED <<gen, pod, vres, options, converter, ecsConfig, call, mainVars, threads, watchVars>>

NextCategorize == CategorizeStep

SpecCategorize == InitCategorize /\ [][NextCategorize]_vars

\* The patterns that make a note on an unsupported feature.
NotePatterns == {"init containers", "secret/configmap volumes", "field references"}

Matched(text, patterns) == {p \in patterns : \E i \in 1..Len(text) : text[i] = p}

\* C29: on an empty result categorizeConversionError adds one
\* UnsupportedInfo entry per matched pattern among the three, the
\* volume-type error when the text has "unsupported volume type", and the
\* generic "Conversion failed" error exactly when nothing matched; Errors
\* and UnsupportedInfo are never both empty afterwards.
C29_EveryErrorCategorized ==
    Called("categorizeConversionError") =>
        LET r == Returned("categorizeConversionError")
            text == call.errStr
            notes == Matched(text, NotePatterns)
            volume == Matched(text, {"unsupported volume type"}) # {}
            generic == <<"Conversion failed: ">> \o text
        IN  /\ Len(r.UnsupportedInfo) = Cardinality(notes)
            /\ r.Errors = IF volume
                          THEN << S("Pod uses unsupported volume types for ECS") >>
                          ELSE IF notes = {} THEN << generic >>
                          ELSE << >>
            /\ (r.Errors # << >> \/ r.UnsupportedInfo # << >>)

\* A text with two of the three patterns and the volume-type pattern: two
\* notes, the volume-type error and no generic error.
C29_Witness ==
    /\ Called("categorizeConversionError")
    /\ call.errStr = <<"init containers", "field references", "unsupported volume type">>
    /\ Len(Returned("categorizeConversionError").UnsupportedInfo) = 2
    /\ Len(Returned("categorizeConversionError").Errors) = 1


---------------------------------------------------------------------------
(* internal/controller: the Pod watcher.  The cluster creates, updates and
   deletes Pods; each event goes through the label predicate of
   SetupWithManager and, when it passes, puts a request for the Pod on the
   work queue; Reconcile takes requests off the queue. *)

MaxEvents == 3

WatchLabel == "ecs.takutakahashi.dev/watch"

PodNames == {"pod-a", "pod-b"}

\* Label maps: nil, the watch label with several values, another label only,
\* both.
LabelMaps ==
    { << >> }
      \cup { [k \in {WatchLabel} |-> v] : v \in {S("true"), S("false"), Empty} }
      \cup { [k \in {"app"} |-> S("web")] }
      \cup { [k \in {WatchLabel, "app"} |-> S("true")] }

PodObject(name, labels) ==
    [Kind |-> "Pod", Name |-> S(name), Namespace |-> S("default"), Labels |-> labels]

\* pod, ok := object.(*corev1.Pod); _, exists := pod.Labels[...]
hasWatchLabel(object) ==
    IF object.Kind = "Pod" THEN WatchLabel \in DOMAIN object.Labels ELSE FALSE

CreateFunc(e) == hasWatchLabel(e.Object)

\* Mutant of UpdateFunc: the old object decides.
UpdateFuncLooksAtOld(e) == hasWatchLabel(e.ObjectOld)

UpdateFunc(e) == hasWatchLabel(e.ObjectNew)

DeleteFunc(e) == hasWatchLabel(e.Object)

\* The label predicate applied to an event of any of the three types.
labelPredicate(e) ==
    CASE e.Type = "Create" -> CreateFunc(e)
      [] e.Type = "Update" -> UpdateFunc(e)
      [] e.Type = "Delete" -> DeleteFunc(e)

\* r.Get(ctx, req.NamespacedName, pod): the Pod, a not-found error, or,
\* when the API server does not answer, another error.
Get(pods_, name, apiServerUp) ==
    IF ~apiServerUp THEN [pod |-> Nil, err |-> Ptr("Timeout")]
    ELSE IF IsNil(pods_[name]) THEN [pod |-> Nil, err |-> Ptr("NotFound")]
    ELSE [pod |-> pods_[name], err |-> Nil]

\* client.IgnoreNotFound
IgnoreNotFound(err) == IF ~IsNil(err) /\ Deref(err) = "NotFound" THEN Nil ELSE err

\* Reconcile, given what r.Get returned: the ctrl.Result and the error.
Reconcile(got) ==
    IF ~IsNil(got.err)
    THEN IF ~IsNil(IgnoreNotFound(got.err))
         THEN [result |-> [Requeue |-> FALSE, RequeueAfter |-> 0], err |-> got.err]
         ELSE [result |-> [Requeue |-> FALSE, RequeueAfter |-> 0], err |-> Nil]
    ELSE [result |-> [Requeue |-> FALSE, RequeueAfter |-> 0], err |-> Nil]

InitWatch ==
    /\ gen = "pod"
    /\ pod = Pod(Empty, Empty, Nil, PodSpec(<< >>, << >>, << >>))
    /\ vres = << >>
    /\ options = NoOptions
    /\ converter = Nil
    /\ ecsConfig = NoECSConfig
    /\ call = [event |-> Nil, passed |-> FALSE, got |-> Nil, events |-> 0]
    /\ outs = [f \in {"Reconcile"} |-> Nil]
    /\ MainIdle
    /\ threads = << >>
    /\ cluster = [name \in PodNames |-> Nil]
    /\ queue = {}

\* The event reaches the controller: the predicate decides whether the
\* Pod's name is queued.
Deliver(e, name) ==
    /\ call' = [call EXCEPT !.event = Ptr(e), !.passed = labelPredicate(e),
                            !.events = @ + 1]
    /\ queue' = IF labelPredicate(e) THEN queue \cup {name} ELSE queue

PodCreated(name, labels) ==
    /\ call.events < MaxEvents
    /\ IsNil(cluster[name])
    /\ cluster' = [cluster EXCEPT ![name] = Ptr(PodObject(name, labels))]
    /\ Deliver([Type |-> "Create", Object |-> PodObject(name, labels)], name)
    /\ UNCHANGED <<gen, pod, vres, options, converter, ecsConfig, outs, mainVars, threads>>

PodUpdated(name, labels) ==
    /\ call.events < MaxEvents
    /\ ~IsNil(cluster[name])
    /\ cluster' = [cluster EXCEPT ![name] = Ptr(PodObject(name, labels))]
    /\ Deliver([Type |-> "Update", ObjectOld |-> Deref(cluster[name]),
                ObjectNew |-> PodObject(name, labels)], name)
    /\ UNCHANGED <<gen, pod, vres, options, converter, ecsConfig, outs, mainVars, threads>>

PodDeleted(name) ==
    /\ call.events < MaxEvents
    /\ ~IsNil(cluster[name])
    /\ cluster' = [cluster EXCEPT ![name] = Nil]
    /\ Deliver([Type |-> "Delete", Object |-> Deref(cluster[name])], name)
    /\ UNCHANGED <<gen, pod, vres, options, converter, ecsConfig, outs, mainVars, threads>>

\* The controller takes a request off the queue and calls Reconcile; after
\* an error the request stays queued for another try.
ReconcileStep(name, apiServerUp) ==
    /\ name \in queue
    /\ LET got == Get(cluster, name, apiServerUp)
           r == Reconcile(got)
       IN  /\ outs' = [outs EXCEPT !["Reconcile"] = Ptr(r)]
           /\ call' = [call EXCEPT !.got = Ptr(got)]
           /\ queue' = IF IsNil(r.err) THEN queue \ {name} ELSE queue
    /\ UNCHANGED <<gen, pod, vres, options, converter, ecsConfig, mainVars, threads,
                   cluster>>

NextWatch ==
    \/ \E name \in PodNames, labels \in LabelMaps : PodCreated(name, labels)
    \/ \E name \in PodNames, labels \in LabelMaps : PodUpdated(name, labels)
    \/ \E name \in PodNames : PodDeleted(name)
    \/ \E name \in PodNames, apiServerUp \in BOOLEAN : ReconcileStep(name, apiServerUp)

SpecWatch == InitWatch /\ [][NextWatch]_vars

\* The Pod an event is about: the new object, for an update.
EventPod(e) == IF e.Type = "Update" THEN e.ObjectNew ELSE e.Object

\* C30: an event passes the filter exactly when its Pod (the new object of
\* an update) has the label key ecs.takutakahashi.dev/watch, whatever the
\* value; Reconcile returns no requeue, and an error exactly when its
\* lookup failed with something other than not-found; and no Reconcile
\* changes a Pod of the cluster.
C30_ReconcilerIsNoOp ==
    /\ [](("event" \in DOMAIN call /\ ~IsNil(call.event))
            => (call.passed <=> WatchLabel \in DOMAIN EventPod(Deref(call.event)).Labels))
    /\ [](("got" \in DOMAIN call /\ ~IsNil(call.got))
            => LET r == Returned("Reconcile")
                   got == Deref(call.got)
               IN  /\ ~r.result.Requeue /\ r.result.RequeueAfter = 0
                   /\ ~IsNil(r.err) <=> (~IsNil(got.err) /\ Deref(got.err) # "NotFound"))
    /\ [][("Reconcile" \in DOMAIN outs /\ outs'["Reconcile"] # outs["Reconcile"])
            => cluster' = cluster]_vars

\* A Pod with the label set to "false" was created and queued, then
\* deleted, and the Reconcile that followed found nothing and returned
\* success.
C30_Witness ==
    /\ "got" \in DOMAIN call
    /\ ~IsNil(call.got)
    /\ Deref(call.got).err = Ptr("NotFound")
    /\ IsNil(Returned("Reconcile").err)
    /\ Deref(call.event).Type = "Delete"
    /\ Deref(call.event).Object.Labels = [k \in {WatchLabel} |-> S("false")]
    /\ call.passed
    /\ queue = {}

====
